---- MODULE Spec2Model ----
(***************************************************************************)
(* Model of llmstxt_architect: the crawl / summarize / merge pipeline.     *)
(*                                                                         *)
(* Text is modelled as a sequence of tokens.  Every token is one character *)
(* of the real string, except the three multi-character tokens             *)
(*   "H"    = "https://ex.com"  (scheme and host of every modelled URL),   *)
(*   "E"    = "ex.com"          (the netloc urlparse returns for H),       *)
(*   ".txt" = ".txt"            (the record-file suffix).                  *)
(* String functions of the source (rstrip, lower, split, replace, strip,   *)
(* the regular expression url_pattern, sorted) are computed on those       *)
(* sequences the way the Python code computes them on characters.          *)
(***************************************************************************)
EXTENDS Integers, Sequences, FiniteSets, TLC

\* ------------------------------------------------------------------ bounds

\* longest seed list / manifest entry list handed to one run
MaxUrls == 2
\* number of runs of generate_llms_txt on the same project directory
MaxRuns == 2
\* longest skeleton and largest record directory of the merge harness
MaxLines == 3
MaxRecs == 2
\* longest URL list of the direct loader harness
MaxLoad == 3

\* ------------------------------------------------------------ python strings

NL == "\n"
SP == " "
H == "H"
E == "E"
TXT == ".txt"

\* ord() of the first character of a token (str comparison in sorted()).
Ord(c) ==
  CASE c = NL -> 10 [] c = SP -> 32 [] c = "#" -> 35 [] c = "(" -> 40
    [] c = ")" -> 41 [] c = TXT -> 46 [] c = "/" -> 47 [] c = ":" -> 58
    [] c = "?" -> 63 [] c = "A" -> 65 [] c = "B" -> 66 [] c = "P" -> 80 [] c = "T" -> 84
    [] c = "[" -> 91 [] c = "]" -> 93 [] c = "_" -> 95 [] c = "a" -> 97
    [] c = "b" -> 98 [] c = E -> 101 [] c = H -> 104 [] c = "l" -> 108
    [] c = "n" -> 110 [] c = "o" -> 111 [] c = "s" -> 115 [] c = "t" -> 116
    [] OTHER -> 120

\* str.__lt__: lexicographic comparison by code point.
RECURSIVE StrLess(_, _)
StrLess(s, t) ==
  IF t = <<>> THEN FALSE
  ELSE IF s = <<>> THEN TRUE
  ELSE IF Ord(Head(s)) # Ord(Head(t)) THEN Ord(Head(s)) < Ord(Head(t))
  ELSE StrLess(Tail(s), Tail(t))

IsSpace(c) == c \in {NL, SP}

\* str.rstrip(c)
RECURSIVE RStripCh(_, _)
RStripCh(s, c) ==
  IF s # <<>> /\ s[Len(s)] = c THEN RStripCh(SubSeq(s, 1, Len(s) - 1), c) ELSE s

\* str.rstrip() / str.lstrip() / str.strip(): whitespace
RECURSIVE RStripWs(_)
RStripWs(s) ==
  IF s # <<>> /\ IsSpace(s[Len(s)]) THEN RStripWs(SubSeq(s, 1, Len(s) - 1)) ELSE s

RECURSIVE LStripWs(_)
LStripWs(s) == IF s # <<>> /\ IsSpace(Head(s)) THEN LStripWs(Tail(s)) ELSE s

Strip(s) == LStripWs(RStripWs(s))

\* str.lower(), character by character
LowerCh(c) ==
  CASE c = "A" -> "a" [] c = "B" -> "b" [] c = "P" -> "p" [] c = "T" -> "t" [] OTHER -> c

Lower(s) == [i \in 1..Len(s) |-> LowerCh(s[i])]

\* ''.join(list of strings)
RECURSIVE Join(_)
Join(ss) == IF ss = <<>> THEN <<>> ELSE Head(ss) \o Join(Tail(ss))

\* str.replace for a one-character pattern
ReplaceCh(s, c, d) == [i \in 1..Len(s) |-> IF s[i] = c THEN d ELSE s[i]]

\* str.replace('\n\n', ' '): non-overlapping occurrences, left to right
RECURSIVE ReplaceNLNL(_)
ReplaceNLNL(s) ==
  IF Len(s) < 2 THEN s
  ELSE IF s[1] = NL /\ s[2] = NL THEN <<SP>> \o ReplaceNLNL(SubSeq(s, 3, Len(s)))
  ELSE <<Head(s)>> \o ReplaceNLNL(Tail(s))

\* str.split('/')[-1]: what follows the last '/'.  The token H ends in
\* "//ex.com", so a URL without any later '/' yields "ex.com".
RECURSIVE LastSegment(_)
LastSegment(s) ==
  IF s = <<>> THEN <<>>
  ELSE IF s[Len(s)] = "/" THEN <<>>
  ELSE IF s[Len(s)] = H THEN <<E>>
  ELSE LastSegment(SubSeq(s, 1, Len(s) - 1)) \o <<s[Len(s)]>>

\* str.splitlines(True) / file.readlines(): lines with their line ends
RECURSIVE SplitLines(_, _)
SplitLines(s, cur) ==
  IF s = <<>> THEN (IF cur = <<>> THEN <<>> ELSE <<cur>>)
  ELSE IF Head(s) = NL THEN <<cur \o <<NL>>>> \o SplitLines(Tail(s), <<>>)
  ELSE SplitLines(Tail(s), cur \o <<Head(s)>>)

ReadLines(s) == SplitLines(s, <<>>)

Min(S) == CHOOSE x \in S : \A y \in S : x <= y

Range(f) == {f[i] : i \in DOMAIN f}

\* ------------------------------------------------------------- url_pattern

\* re.compile(r'\[(.*?)\]\((https?://[^\s)]+)\)')
\* the end of the greedy run [^\s)]+ that starts at position k (a token H)
RECURSIVE UrlRunEnd(_, _)
UrlRunEnd(s, k) ==
  IF k + 1 <= Len(s) /\ ~IsSpace(s[k + 1]) /\ s[k + 1] # ")"
  THEN UrlRunEnd(s, k + 1) ELSE k

\* a match that opens at i and closes its title at j
PatMatchAt(s, i, j) ==
  /\ s[i] = "["
  /\ j > i /\ j + 2 <= Len(s)
  /\ s[j] = "]" /\ s[j + 1] = "(" /\ s[j + 2] = H
  /\ \A m \in (i + 1)..(j - 1) : s[m] # NL
  /\ LET k == UrlRunEnd(s, j + 2) IN k + 1 <= Len(s) /\ s[k + 1] = ")"

\* the shortest title: the least j >= from that closes a match opening at
\* i, 0 when there is none ('.' does not match a newline)
RECURSIVE PatTitleEnd(_, _, _)
PatTitleEnd(s, i, from) ==
  IF from + 2 > Len(s) \/ s[from] = NL THEN 0
  ELSE IF PatMatchAt(s, i, from) THEN from
  ELSE PatTitleEnd(s, i, from + 1)

\* the leftmost match that opens at from or later
RECURSIVE PatSearchFrom(_, _)
PatSearchFrom(s, from) ==
  IF from > Len(s) THEN [found |-> FALSE]
  ELSE LET j == IF s[from] = "[" THEN PatTitleEnd(s, from, from + 1) ELSE 0
       IN IF j = 0 THEN PatSearchFrom(s, from + 1)
          ELSE LET k == UrlRunEnd(s, j + 2)
               IN [found |-> TRUE, title |-> SubSeq(s, from + 1, j - 1),
                   url |-> SubSeq(s, j + 2, k), start |-> from, end |-> k + 1]

\* url_pattern.search(s): leftmost start, shortest title; found = FALSE for None
PatSearch(s) == PatSearchFrom(s, 1)

\* url_pattern.findall(s): the non-overlapping matches, left to right
RECURSIVE PatFindAll(_)
PatFindAll(s) ==
  LET m == PatSearch(s) IN
  IF ~m.found THEN <<>>
  ELSE <<[title |-> m.title, url |-> m.url]>> \o PatFindAll(SubSeq(s, m.end + 1, Len(s)))

\* ----------------------------------------------------------- loader.py

\* a normalization that keeps trailing slashes
normalize_url_keep_slash(url) == Lower(url)

\* normalize_url
normalize_url(url) == Lower(RStripCh(url, "/"))

\* batch_size of load_urls_directly.  The source fixes it at 10; the model
\* scales it down to 2 so that a list of three URLs already spans two batches.
batch_size == 2

\* Optional[str] / Optional[Document]
None == [some |-> FALSE, val |-> <<>>]

Some(v) == [some |-> TRUE, val |-> v]

\* extract_urls_from_llms_file, lines 249-259: the URLs of the manifest
\* text, first raw variant of every normalized key, in order
RECURSIVE FirstByKey(_, _)
FirstByKey(urls, keys) ==
  IF urls = <<>> THEN <<>>
  ELSE IF normalize_url(Head(urls)) \in keys THEN FirstByKey(Tail(urls), keys)
  ELSE <<Head(urls)>> \o FirstByKey(Tail(urls), keys \cup {normalize_url(Head(urls))})

extract_urls_from_llms_file(content) ==
  LET matches == PatFindAll(content)
  IN FirstByKey([i \in 1..Len(matches) |-> matches[i].url], {})

\* a deduplication that forgets the keys of the batches before
UniqueBatchesPerBatch(urls, processed_urls) ==
  LET nb == (Len(urls) + batch_size - 1) \div batch_size
      Batch(b) == SubSeq(urls, (b - 1) * batch_size + 1,
                         IF b * batch_size < Len(urls) THEN b * batch_size ELSE Len(urls))
      NonEmpty(x) == x # <<>>
  IN SelectSeq([b \in 1..nb |-> FirstByKey(Batch(b), processed_urls)], NonEmpty)

\* load_urls_directly, lines 109-124: the batches of batch_size consecutive
\* URLs, each reduced to the URLs whose key no earlier URL had; empty
\* batches are dropped
RECURSIVE UniqueBatches(_, _)
UniqueBatches(urls, processed_urls) ==
  IF urls = <<>> THEN <<>>
  ELSE LET n == IF Len(urls) < batch_size THEN Len(urls) ELSE batch_size
           batch == SubSeq(urls, 1, n)
           unique_batch == FirstByKey(batch, processed_urls)
           processed == processed_urls \cup {normalize_url(batch[i]) : i \in 1..n}
           rest == UniqueBatches(SubSeq(urls, n + 1, Len(urls)), processed)
       IN IF unique_batch = <<>> THEN rest ELSE <<unique_batch>> \o rest

\* the tags of an HTML text, one token each
TOPEN == "<title>"
TCLOSE == "</title>"

\* str.find(c, from): the first position of c at from or later, 0 for -1
RECURSIVE IndexOf(_, _, _)
IndexOf(s, c, from) ==
  IF from > Len(s) THEN 0
  ELSE IF s[from] = c THEN from
  ELSE IndexOf(s, c, from + 1)

\* extract_title: re.search(r'<title>(.*?)</title>', html, IGNORECASE | DOTALL),
\* group(1).strip(); '.' matches a newline here
extract_title(html_content) ==
  LET i == IndexOf(html_content, TOPEN, 1)
      j == IF i = 0 THEN 0 ELSE IndexOf(html_content, TCLOSE, i + 1)
  IN IF i = 0 \/ j = 0 THEN None ELSE Some(Strip(SubSeq(html_content, i + 1, j - 1)))

\* fetch_url: the Document of a fetched page, None when the fetch raised.
\* page is the response: [ok, title] with title what extract_title returns.
fetch_url(url, page) ==
  IF ~page.ok THEN None
  ELSE Some([url |-> url,
             title |-> Some(IF page.title.some /\ page.title.val # <<>>
                            THEN page.title.val ELSE LastSegment(url))])

\* the Documents of one batch, last task first
BatchDocsReversed(results) ==
  LET Ok(r) == r.some
      got == SelectSeq(results, Ok)
  IN [i \in 1..Len(got) |-> got[Len(got) + 1 - i].val]

\* load_urls_directly, lines 146-156: the Documents of one batch, in the
\* order of the batch; results[i] is what fetch_url returned for batch[i]
BatchDocs(results) ==
  LET Ok(r) == r.some
      got == SelectSeq(results, Ok)
  IN [i \in 1..Len(got) |-> got[i].val]

\* load_urls_directly as a whole; web[u] is the response to the fetch of u
load_urls_directly(urls, web) ==
  LET batches == UniqueBatches(urls, {})
  IN Join([b \in 1..Len(batches) |->
             BatchDocs([i \in 1..Len(batches[b]) |-> fetch_url(batches[b][i], web[batches[b][i]])])])

\* a crawl that ends at the first seed that raises
RecursiveDocsAbort(urls, crawl) ==
  LET bad == {i \in 1..Len(urls) : ~crawl[i].ok}
      n == IF bad = {} THEN Len(urls) ELSE Min(bad) - 1
  IN [i \in 1..n |-> [url |-> urls[i], title |-> crawl[i].title]]

\* load_urls, lines 50-75: one RecursiveUrlLoader per seed, in order, with
\* no deduplication of the seeds.  crawl[i] is what the crawler does for the
\* i-th seed at depth 0: it raises, or yields the seed's own page.
RecursiveDocs(urls, crawl) ==
  Join([i \in 1..Len(urls) |->
          IF crawl[i].ok THEN <<[url |-> urls[i], title |-> crawl[i].title]>> ELSE <<>>])

\* load_urls: the manifest's URLs replace the urls argument when there are
\* any; direct loading with an existing manifest, recursive otherwise
load_urls(urls, existing, web, crawl) ==
  IF existing.some
  THEN LET urls_from_file == extract_urls_from_llms_file(existing.val)
       IN load_urls_directly(IF urls_from_file # <<>> THEN urls_from_file ELSE urls, web)
  ELSE RecursiveDocs(urls, crawl)

\* parse_existing_llms_file_content: the file structure is every line
parse_existing_llms_file_structure(lines) == lines

\* --------------------------------------------------------- summarizer.py

\* the name of the log file inside the summaries directory
LOGNAME == <<"summarized_urls.json">>

\* a dict with no key
EmptyDict == [k \in {} |-> <<>>]

DictPut(d, k, v) == [x \in DOMAIN d \cup {k} |-> IF x = k THEN v ELSE d[x]]

\* str.endswith('.txt')
EndsWithTxt(s) == s # <<>> /\ s[Len(s)] = TXT

\* Summarizer._load_blacklist: the stripped lines that are neither empty nor
\* comments, each with its trailing slashes removed
_load_blacklist(lines) ==
  {RStripCh(Strip(lines[i]), "/") :
     i \in {j \in 1..Len(lines) : Strip(lines[j]) # <<>> /\ Head(Strip(lines[j])) # "#"}}

\* urlparse(url).path for a URL H<path>[?<query>]
RECURSIVE UrlPath(_)
UrlPath(rest) ==
  IF rest = <<>> \/ Head(rest) = "?" THEN <<>> ELSE <<Head(rest)>> \o UrlPath(Tail(rest))

\* Summarizer._get_summary_filename
_get_summary_filename(url) ==
  LET filename == ReplaceCh(<<E>> \o UrlPath(Tail(url)), "/", "_")
  IN IF EndsWithTxt(filename) THEN filename ELSE filename \o <<TXT>>

\* summarize_document, lines 200-201: the one-line description
CleanSummary(summary) == Strip(ReplaceCh(ReplaceNLNL(summary), NL, SP))

\* summarize_document, line 202: f"[{title}]({url}): {clean_summary}\n\n"
FormatSummary(title, url, clean) ==
  <<"[">> \o title \o <<"]", "(">> \o url \o <<")", ":", SP>> \o clean \o <<NL, NL>>

\* summarize_document, lines 195-198: the title of a new record
ResolveTitle(doc, url_titles) ==
  IF doc.url \in DOMAIN url_titles THEN url_titles[doc.url]
  ELSE IF doc.title.some THEN doc.title.val ELSE LastSegment(doc.url)

\* The summaries directory is the sequence of its record files, in the
\* order os.listdir returns them: [name, content].
DirNames(dir) == [i \in 1..Len(dir) |-> dir[i].name]

DirHas(dir, name) == \E i \in 1..Len(dir) : dir[i].name = name

DirRead(dir, name) == dir[CHOOSE i \in 1..Len(dir) : dir[i].name = name].content

\* open(path, 'w').write(content): an existing file keeps its directory
\* slot, a new one appears at slot pos of the listing
DirWrite(dir, name, content, pos) ==
  IF DirHas(dir, name)
  THEN [i \in 1..Len(dir) |-> IF dir[i].name = name THEN [name |-> name, content |-> content] ELSE dir[i]]
  ELSE SubSeq(dir, 1, pos - 1) \o <<[name |-> name, content |-> content]>> \o SubSeq(dir, pos, Len(dir))

\* summarize_document, lines 157-163
IsBlacklisted(url, blacklisted_urls) == RStripCh(url, "/") \in blacklisted_urls

\* a lookup that never finds the record file
CachedSummaryMissing(url, log, dir) == None

\* summarize_document, lines 165-174: the cached record, None without file
CachedSummary(url, log, dir) ==
  IF DirHas(dir, log[url]) THEN Some(DirRead(dir, log[url])) ELSE None

\* a summarize_document that enters the URL into the log, in memory and on
\* disk, before it invokes the model
summarize_document_eager_log(doc, sm, llm, pos) ==
  LET url == doc.url
      filename == _get_summary_filename(url)
      log2 == DictPut(sm.log, url, filename)
      same == [ret |-> None, log |-> sm.log, dir |-> sm.dir, logDisk |-> sm.logDisk]
  IN IF IsBlacklisted(url, sm.blacklisted_urls)
     THEN same @@ [path |-> "blacklisted", called |-> FALSE]
     ELSE IF url \in DOMAIN sm.log
     THEN [same EXCEPT !.ret = CachedSummary(url, sm.log, sm.dir)]
            @@ [path |-> "cached", called |-> FALSE]
     ELSE IF llm.raises
     THEN [same EXCEPT !.log = log2, !.logDisk = Some(log2)]
            @@ [path |-> "error", called |-> TRUE]
     ELSE LET formatted == FormatSummary(ResolveTitle(doc, sm.url_titles), url,
                                         CleanSummary(llm.content))
          IN [ret |-> Some(formatted), log |-> log2,
              dir |-> DirWrite(sm.dir, filename, formatted, pos),
              logDisk |-> Some(log2), path |-> "new", called |-> TRUE]

\* a save that first reads the log back from the disk and adds its own
\* entries to it
_save_log_merged(summarized_urls, ldisk) ==
  Some([u \in DOMAIN summarized_urls \cup (IF ldisk.some THEN DOMAIN ldisk.val ELSE {}) |->
          IF u \in DOMAIN summarized_urls THEN summarized_urls[u] ELSE ldisk.val[u]])

\* _save_log, lines 95-98: the file is opened with 'w' and the whole
\* in-memory dict is dumped; what the file held before is gone
_save_log(summarized_urls, ldisk) == Some(summarized_urls)

\* Summarizer.summarize_document.  sm is the summarizer (its log, titles and
\* blacklist, the directory and the persisted log); llm is what llm.invoke
\* does ("raise", or the response text); pos is the listing slot of a newly
\* created file.  The result is the returned value, the new state, and
\* whether the model was invoked.
summarize_document(doc, sm, llm, pos) ==
  LET url == doc.url
      same == [ret |-> None, log |-> sm.log, dir |-> sm.dir, logDisk |-> sm.logDisk]
  IN IF IsBlacklisted(url, sm.blacklisted_urls)
     THEN same @@ [path |-> "blacklisted", called |-> FALSE]
     ELSE IF url \in DOMAIN sm.log
     THEN [same EXCEPT !.ret = CachedSummary(url, sm.log, sm.dir)]
            @@ [path |-> "cached", called |-> FALSE]
     ELSE IF llm.raises
     THEN same @@ [path |-> "error", called |-> TRUE]
     ELSE LET title == ResolveTitle(doc, sm.url_titles)
              formatted == FormatSummary(title, url, CleanSummary(llm.content))
              filename == _get_summary_filename(url)
              log2 == DictPut(sm.log, url, filename)
          IN [ret |-> Some(formatted), log |-> log2,
              dir |-> DirWrite(sm.dir, filename, formatted, pos),
              logDisk |-> _save_log(log2, sm.logDisk), path |-> "new", called |-> TRUE]

\* os.listdir(self.output_dir): the record files and, once written, the log
ListDir(dir, logDisk) == (IF logDisk.some THEN <<LOGNAME>> ELSE <<>>) \o DirNames(dir)

\* the first occurrences of a sequence's elements, in order (dict keys)
RECURSIVE FirstSeen(_, _)
FirstSeen(s, seen) ==
  IF s = <<>> THEN <<>>
  ELSE IF Head(s) \in seen THEN FirstSeen(Tail(s), seen)
  ELSE <<Head(s)>> \o FirstSeen(Tail(s), seen \cup {Head(s)})

\* sorted(entries, key=lambda x: x[0]): stable insertion by StrLess on x[1]
RECURSIVE SortedInsert(_, _)
SortedInsert(sorted, e) ==
  IF sorted = <<>> THEN <<e>>
  ELSE IF StrLess(e[1], Head(sorted)[1]) THEN <<e>> \o sorted
  ELSE <<Head(sorted)>> \o SortedInsert(Tail(sorted), e)

RECURSIVE SortedByUrl(_)
SortedByUrl(entries) ==
  IF entries = <<>> THEN <<>>
  ELSE SortedInsert(SortedByUrl(SubSeq(entries, 1, Len(entries) - 1)), entries[Len(entries)])

\* generate_llms_txt, lines 272-286: (normalized_url, content) of every
\* *.txt file of the directory other than basename(output_file)
SummaryEntries(dir, logDisk, outBase) ==
  LET IsRecord(f) == EndsWithTxt(f) /\ f # outBase
      names == SelectSeq(ListDir(dir, logDisk), IsRecord)
  IN [i \in 1..Len(names) |->
        LET content == DirRead(dir, names[i])
            match == PatSearch(content)
            url == IF match.found THEN match.url ELSE names[i]
        IN <<RStripCh(url, "/"), content>>]

\* generate_llms_txt, lines 288-297: the entries that are not blacklisted
NotBlacklisted(entries, blacklisted_urls) ==
  LET Keep(e) == e[1] \notin blacklisted_urls IN SelectSeq(entries, Keep)

\* a choice that takes the first content listed
FirstContent(contents) == contents[1]

\* generate_llms_txt, lines 299-306: contents.sort(key=len, reverse=True)[0]
\* is the first content of maximal length (the sort is stable)
LongestContent(contents) ==
  contents[Min({i \in 1..Len(contents) :
                  \A j \in 1..Len(contents) : Len(contents[j]) <= Len(contents[i])})]

\* a grouping that keeps the first file only
UniqueEntriesFirstFile(entries) == IF entries = <<>> THEN <<>> ELSE <<entries[1]>>

\* generate_llms_txt, lines 288-306: one (url, content) per key, keys in
\* first-insertion order
UniqueEntries(entries) ==
  LET keys == FirstSeen([i \in 1..Len(entries) |-> entries[i][1]], {})
      ContentsOf(k) ==
        LET Is(e) == e[1] = k
            es == SelectSeq(entries, Is)
        IN [i \in 1..Len(es) |-> es[i][2]]
  IN [i \in 1..Len(keys) |-> <<keys[i], LongestContent(ContentsOf(keys[i]))>>]

\* generate_llms_txt, lines 308-315: drop a content already seen
RECURSIVE DedupContent(_, _)
DedupContent(entries, seen) ==
  IF entries = <<>> THEN <<>>
  ELSE IF Head(entries)[2] \in seen THEN DedupContent(Tail(entries), seen)
  ELSE <<Head(entries)>> \o DedupContent(Tail(entries), seen \cup {Head(entries)[2]})

\* generate_llms_txt, lines 265-318: the sorted (url, content) entries
SortedEntries(dir, logDisk, blacklisted_urls, outBase) ==
  SortedByUrl(DedupContent(UniqueEntries(
    NotBlacklisted(SummaryEntries(dir, logDisk, outBase), blacklisted_urls)), {}))

\* a merge that writes the summaries it was handed
generate_llms_txt_of_argument(summaries, dir, logDisk, blacklisted_urls, outBase) ==
  Join(summaries)

\* Summarizer.generate_llms_txt (Strategy A): the text written to
\* output_file.  summaries is the argument of the same name.
generate_llms_txt(summaries, dir, logDisk, blacklisted_urls, outBase) ==
  LET sorted == SortedEntries(dir, logDisk, blacklisted_urls, outBase)
  IN Join([i \in 1..Len(sorted) |-> sorted[i][2]])

\* generate_structured_llms_txt, lines 357-361: the run's summaries; a later
\* summary of a URL replaces an earlier one
RECURSIVE FromSummaries(_, _)
FromSummaries(sums, url_to_summary) ==
  IF sums = <<>> THEN url_to_summary
  ELSE LET match == PatSearch(Head(sums))
       IN FromSummaries(Tail(sums),
            IF match.found THEN DictPut(url_to_summary, match.url, Strip(Head(sums)))
            ELSE url_to_summary)

\* generate_structured_llms_txt, lines 364-373: the record files; a file
\* never replaces what the map already holds
RECURSIVE FromFiles(_, _)
FromFiles(contents, url_to_summary) ==
  IF contents = <<>> THEN url_to_summary
  ELSE LET match == PatSearch(Head(contents))
       IN FromFiles(Tail(contents),
            IF match.found /\ match.url \notin DOMAIN url_to_summary
            THEN DictPut(url_to_summary, match.url, Strip(Head(contents)))
            ELSE url_to_summary)

\* a map that knows the last summary of the run only
UrlToSummaryLastOnly(summaries, dir, logDisk, outBase) ==
  FromSummaries(IF summaries = <<>> THEN <<>> ELSE <<summaries[Len(summaries)]>>, EmptyDict)

\* generate_structured_llms_txt, lines 352-373: url -> summary.strip()
UrlToSummary(summaries, dir, logDisk, outBase) ==
  LET IsRecord(f) == EndsWithTxt(f) /\ f # outBase
      names == SelectSeq(ListDir(dir, logDisk), IsRecord)
  IN FromFiles([i \in 1..Len(names) |-> DirRead(dir, names[i])],
               FromSummaries(summaries, EmptyDict))

\* a patch that does not terminate the replaced line
PatchLineUnterminated(line, url_to_summary) ==
  LET match == PatSearch(line)
  IN IF match.found /\ match.url \in DOMAIN url_to_summary
     THEN url_to_summary[match.url]
     ELSE line

\* generate_structured_llms_txt, lines 380-395: one output line per line of
\* the skeleton
PatchLine(line, url_to_summary) ==
  LET match == PatSearch(line)
  IN IF match.found /\ match.url \in DOMAIN url_to_summary
     THEN url_to_summary[match.url] \o <<NL>>
     ELSE line

\* a Strategy B that appends the records of the run after the skeleton
StructuredLinesAppending(summaries, dir, logDisk, outBase, file_structure) ==
  LET url_to_summary == UrlToSummary(summaries, dir, logDisk, outBase)
  IN [i \in 1..Len(file_structure) |-> PatchLine(file_structure[i], url_to_summary)]
       \o [i \in 1..Len(summaries) |-> Strip(summaries[i]) \o <<NL>>]

\* Summarizer.generate_structured_llms_txt (Strategy B): output_lines
StructuredLines(summaries, dir, logDisk, outBase, file_structure) ==
  LET url_to_summary == UrlToSummary(summaries, dir, logDisk, outBase)
  IN [i \in 1..Len(file_structure) |-> PatchLine(file_structure[i], url_to_summary)]

\* f.writelines(output_lines)
generate_structured_llms_txt(summaries, dir, logDisk, outBase, file_structure) ==
  Join(StructuredLines(summaries, dir, logDisk, outBase, file_structure))

\* Summarizer._parse_existing_file_titles: url -> title of the manifest's
\* entries; a later entry of the same URL replaces an earlier one
_parse_existing_file_titles(content) ==
  LET matches == PatFindAll(content)
      LastIdx(u) == CHOOSE i \in 1..Len(matches) :
                      /\ matches[i].url = u
                      /\ \A j \in 1..Len(matches) : matches[j].url = u => j <= i
  IN [u \in {matches[i].url : i \in 1..Len(matches)} |-> matches[LastIdx(u)].title]

\* ------------------------------------------------------------ the inputs

Ua == <<H, "/", "a">>
UaS == <<H, "/", "a", "/">>
UA == <<H, "/", "A">>
UaQ == <<H, "/", "a", "?">>

\* the URLs of the model: a page, the same page with a trailing slash, in
\* another letter case, and with an (empty) query string
AllUrls == {Ua, UaS, UA, UaQ}

\* the URLs handed to the runs of the pipeline
URLS == {Ua, UaS, UaQ}

UrlLists(n) == UNION {[1..k -> URLS] : k \in 0..n}

\* the blacklist files: none or empty, and one that names a page
BlacklistFiles == {<<>>, UaS \o <<NL>>}

\* the <title> text of every fetched page
PageTitle == <<"P">>

\* what llm.invoke does: it raises, or it answers with the two-line summary
LlmOutcomes == {[raises |-> TRUE, content |-> <<>>],
                [raises |-> FALSE, content |-> <<"s", NL, "t">>]}

\* an existing manifest for a list of URLs: a header, one entry per URL
\* with the curator's title T and the old description o, a blank line
ManifestLine(url) == <<"[", "T", "]", "(">> \o url \o <<")", ":", SP, "o", NL>>

ManifestText(urls) ==
  <<"#", NL>> \o Join([i \in 1..Len(urls) |-> ManifestLine(urls[i])]) \o <<NL>>

\* the arguments of one run of generate_llms_txt.  mode "crawl" has no
\* existing_llms_file, "direct" has one, "update" has one and
\* update_descriptions_only; with an existing file the urls argument is
\* empty and the file is the manifest of the URL list.
Configs ==
  [mode : {"crawl", "direct", "update"}, urls : UrlLists(MaxUrls),
   blacklist : BlacklistFiles]

ExistingFile(c) == IF c.mode = "crawl" THEN None ELSE Some(ManifestText(c.urls))

UrlsArg(c) == IF c.mode = "crawl" THEN c.urls ELSE <<>>

\* the output file name: the default "llms.txt"
LLMS_TXT == <<"llms", TXT>>

\* an output_file argument other than the default
OUT_TXT == <<"out", TXT>>

\* generate_llms_txt, line 30: the output_file argument of a run; the runs
\* whose arguments do not name one use the default
OutputFile(c) == IF "output_file" \in DOMAIN c THEN c.output_file ELSE LLMS_TXT

\* ------------------------------------------------------------- the state

VARIABLES
  dir,                     \* the record files of the summaries directory
  logDisk,                 \* summarized_urls.json: None, or the dict in it
  manifest,                \* <project_dir>/llms.txt: None, or its text
  pc,                      \* where generate_llms_txt is
  runs,                    \* runs started so far on this project directory
  cfg,                     \* the arguments of the current run
  docs,                    \* what load_urls returned
  idx,                     \* the next document of summarize_all's loop
  summaries,               \* the list summarize_all builds
  main_summaries,          \* generate_llms_txt's variable summaries
  log,                     \* Summarizer.summarized_urls
  url_titles,              \* Summarizer.url_titles
  blacklisted_urls,        \* Summarizer.blacklisted_urls
  existing_file_structure, \* generate_llms_txt's variable of that name
  hist,                    \* what the run did so far (observation only)
  ld,                      \* load_urls_directly, step by step
  mh                       \* the merge harness (observation only)

vars ==
  <<dir, logDisk, manifest, pc, runs, cfg, docs, idx, summaries, main_summaries,
    log, url_titles, blacklisted_urls, existing_file_structure, hist, ld, mh>>

\* what the pipeline's actions leave alone
harness == <<ld, mh>>

disk == <<dir, logDisk, manifest>>

NoLoad == [pc |-> "off"]

NoMerge == [op |-> "off"]

NoHist ==
  [calls |-> <<>>, llm_calls |-> 0, load_errors |-> 0, merged |-> FALSE,
   strategy |-> "none", fresh |-> TRUE, checkpoints |-> 0, checkpointed |-> 0,
   writes |-> <<>>]

\* no process is running: nothing is in memory
NoProcess ==
  /\ pc = "idle"
  /\ cfg = [mode |-> "crawl", urls |-> <<>>, blacklist |-> <<>>]
  /\ docs = <<>>
  /\ idx = 1
  /\ summaries = <<>>
  /\ main_summaries = None
  /\ log = EmptyDict
  /\ url_titles = EmptyDict
  /\ blacklisted_urls = {}
  /\ existing_file_structure = <<>>
  /\ hist = NoHist

Init ==
  /\ dir = <<>>
  /\ logDisk = None
  /\ manifest = None
  /\ runs = 0
  /\ NoProcess
  /\ ld = NoLoad
  /\ mh = NoMerge

\* ----------------------------------------------------------------- main.py

\* generate_llms_txt, lines 82-98: the skeleton, read only in an
\* update-descriptions-only run
ExistingStructure(c) ==
  IF c.mode = "update"
  THEN parse_existing_llms_file_structure(ReadLines(ExistingFile(c).val))
  ELSE <<>>

\* generate_llms_txt, lines 113 and 117: the titles, read only in an
\* update-descriptions-only run
ExistingTitles(c) ==
  IF c.mode = "update" THEN _parse_existing_file_titles(ExistingFile(c).val) ELSE EmptyDict

\* generate_llms_txt, lines 52-117: everything before the summarization
\* loop.  The run reads the manifest, loads the documents, builds the
\* Summarizer (log and blacklist from disk) and reads the titles.
StartRun ==
  /\ pc = "idle"
  /\ runs < MaxRuns
  /\ \E c \in Configs :
     \E ok \in [1..Len(c.urls) -> BOOLEAN] :
       LET page(i) == [ok |-> ok[i], title |-> Some(PageTitle)]
           web == [u \in URLS |->
                     IF \E i \in 1..Len(c.urls) : c.urls[i] = u /\ ~ok[i]
                     THEN [ok |-> FALSE, title |-> None]
                     ELSE [ok |-> TRUE, title |-> Some(PageTitle)]]
           crawl == [i \in 1..Len(c.urls) |-> page(i)]
           loaded == load_urls(UrlsArg(c), ExistingFile(c), web, crawl)
       IN /\ cfg' = c
          /\ docs' = loaded
          /\ existing_file_structure' = ExistingStructure(c)
          /\ url_titles' = ExistingTitles(c)
          /\ hist' = [NoHist EXCEPT
                        !.load_errors = Cardinality({i \in 1..Len(c.urls) : ~ok[i]}),
                        !.fresh = (dir = <<>> /\ ~logDisk.some)]
  /\ log' = (IF logDisk.some THEN logDisk.val ELSE EmptyDict)
  /\ blacklisted_urls' = _load_blacklist(ReadLines(cfg'.blacklist))
  /\ idx' = 1
  /\ summaries' = <<>>
  /\ main_summaries' = None
  /\ pc' = "summarizing"
  /\ runs' = runs + 1
  /\ UNCHANGED <<disk, harness>>

\* a loop that keeps whatever summarize_document returned
TruthyAny(ret) == TRUE

\* `if summary:` - None and the empty string are false
Truthy(ret) == ret.some /\ ret.val # <<>>

\* summarize_all, line 238: a checkpoint after every fifth summary
CheckpointEvery == 5

\* summarize_all, line 230: hasattr(self, 'file_structure').  No code of the
\* repository assigns that attribute.
HasFileStructure == FALSE

\* summarize_all, line 230
preserve_structure(c) == c.mode = "update" /\ HasFileStructure

\* a checkpoint after every summary from the fifth on
CheckpointDueFromFifth(appended) == Len(appended) >= CheckpointEvery

\* summarize_all, line 238: len(summaries) % 5 == 0, evaluated right after
\* a summary was appended
CheckpointDue(appended) == Len(appended) % CheckpointEvery = 0

\* summarize_all, lines 239-248: the text the checkpoint writes to
\* <project_dir>/llms.txt
CheckpointText(c, sums, d, ldisk, bl, structure) ==
  IF preserve_structure(c)
  THEN generate_structured_llms_txt(sums, d, ldisk, LLMS_TXT, structure)
  ELSE generate_llms_txt(sums, d, ldisk, bl, LLMS_TXT)

\* a checkpoint that writes the file the run was configured to produce
temp_output_configured(output_file) == output_file

\* summarize_all, line 243: temp_output, as a file name of the project
\* directory - os.path.join(os.path.dirname(self.output_dir), "llms.txt"),
\* where output_dir is <project_dir>/<output_dir> (main.py 76, 111)
temp_output(output_file) == LLMS_TXT

\* <project_dir>/llms.txt after `text` was written to the file `name` of
\* the project directory
ProjectWrite(llms, name, text) == IF name = LLMS_TXT THEN Some(text) ELSE llms

\* a list that takes a new element at its front
ListPrepend(list, x) == <<x>> \o list

\* summarize_all, line 236: summaries.append(summary)
ListAppend(list, x) == Append(list, x)

\* a loop that leaves out the document after the one it attempted
SkipDoc(i) == i + 2

\* summarize_all, line 232: `for doc in docs` takes the next document
NextDoc(i) == i + 1

\* summarize_all, lines 232-253: one iteration of the loop
SummarizeStep ==
  /\ pc = "summarizing"
  /\ idx <= Len(docs)
  /\ \E llm \in LlmOutcomes :
     \E pos \in 1..(Len(dir) + 1) :
       LET sm == [log |-> log, dir |-> dir, logDisk |-> logDisk,
                  url_titles |-> url_titles, blacklisted_urls |-> blacklisted_urls]
           r == summarize_document(docs[idx], sm, llm, pos)
           appended == IF Truthy(r.ret) THEN ListAppend(summaries, r.ret.val) ELSE summaries
           checkpoint == Truthy(r.ret) /\ CheckpointDue(appended)
       IN /\ dir' = r.dir
          /\ log' = r.log
          /\ logDisk' = r.logDisk
          /\ summaries' = appended
          /\ manifest' = IF checkpoint
                         THEN ProjectWrite(manifest, temp_output(OutputFile(cfg)),
                                           CheckpointText(cfg, appended, r.dir, r.logDisk,
                                                          blacklisted_urls,
                                                          existing_file_structure))
                         ELSE manifest
          /\ hist' = [hist EXCEPT
                        !.calls = Append(@, [url |-> docs[idx].url, path |-> r.path,
                                             ret |-> r.ret, raised |-> r.path = "error"]),
                        !.llm_calls = @ + (IF r.called THEN 1 ELSE 0),
                        !.checkpoints = @ + (IF checkpoint THEN 1 ELSE 0),
                        !.checkpointed = IF checkpoint THEN Len(appended) ELSE @,
                        !.writes = IF checkpoint
                                   THEN Append(@, [file |-> temp_output(OutputFile(cfg)),
                                                   by |-> "checkpoint"])
                                   ELSE @]
  /\ idx' = NextDoc(idx)
  /\ UNCHANGED <<pc, runs, cfg, docs, main_summaries, url_titles, blacklisted_urls,
                 existing_file_structure, harness>>

\* generate_llms_txt, line 122: summarize_all returns its list
LoopReturn ==
  /\ pc = "summarizing"
  /\ idx > Len(docs)
  /\ main_summaries' = Some(summaries)
  /\ pc' = "finally"
  /\ UNCHANGED <<disk, runs, cfg, docs, idx, summaries, log, url_titles, blacklisted_urls,
                 existing_file_structure, hist, harness>>

\* KeyboardInterrupt or task cancellation while a document is summarized:
\* a BaseException, which no `except Exception` of summarize_document,
\* summarize_all or generate_llms_txt catches.  Line 122 never assigns.
Interrupt ==
  /\ pc = "summarizing"
  /\ idx <= Len(docs)
  /\ pc' = "finally"
  /\ UNCHANGED <<disk, runs, cfg, docs, idx, summaries, main_summaries, log, url_titles,
                 blacklisted_urls, existing_file_structure, hist, harness>>

\* generate_llms_txt, line 134: the strategy of the final merge
FinalStrategy(c, structure) == IF c.mode = "update" /\ structure # <<>> THEN "B" ELSE "A"

\* generate_llms_txt, lines 134-144: the text of the final merge
FinalText(c, sums, d, ldisk, bl, structure) ==
  IF FinalStrategy(c, structure) = "B"
  THEN generate_structured_llms_txt(sums, d, ldisk, OutputFile(c), structure)
  ELSE generate_llms_txt(sums, d, ldisk, bl, OutputFile(c))

\* whether the finally block can read the local variable summaries
FinallyReadsSummaries(ms) == ms.some

\* generate_llms_txt, lines 129-151: the finally block.  Reading the
\* unassigned local summaries raises UnboundLocalError before any merge.
Finally ==
  /\ pc = "finally"
  /\ IF FinallyReadsSummaries(main_summaries)
     THEN /\ manifest' = ProjectWrite(manifest, OutputFile(cfg),
                                      FinalText(cfg, main_summaries.val, dir, logDisk,
                                                blacklisted_urls, existing_file_structure))
          /\ hist' = [hist EXCEPT !.merged = TRUE,
                        !.strategy = FinalStrategy(cfg, existing_file_structure),
                        !.writes = Append(@, [file |-> OutputFile(cfg), by |-> "final"])]
          /\ pc' = "done"
     ELSE /\ pc' = "crashed"
          /\ UNCHANGED <<manifest, hist>>
  /\ UNCHANGED <<dir, logDisk, runs, cfg, docs, idx, summaries, main_summaries, log,
                 url_titles, blacklisted_urls, existing_file_structure, harness>>

\* cli.main, lines 131-151: generate_llms_txt returned or raised and the
\* process ends; only the files remain
Exit ==
  /\ pc \in {"done", "crashed"}
  /\ pc' = "idle"
  /\ cfg' = [mode |-> "crawl", urls |-> <<>>, blacklist |-> <<>>]
  /\ docs' = <<>>
  /\ idx' = 1
  /\ summaries' = <<>>
  /\ main_summaries' = None
  /\ log' = EmptyDict
  /\ url_titles' = EmptyDict
  /\ blacklisted_urls' = {}
  /\ existing_file_structure' = <<>>
  /\ hist' = NoHist
  /\ UNCHANGED <<disk, runs, harness>>

Next == StartRun \/ SummarizeStep \/ LoopReturn \/ Interrupt \/ Finally \/ Exit

Spec == Init /\ [][Next]_vars

\* ------------------------------------------------- claims on the pipeline

Last(s) == s[Len(s)]

\* the entry URLs of a manifest text
ManifestUrls(text) == LET ms == PatFindAll(text) IN [i \in 1..Len(ms) |-> ms[i].url]

\* the entries of a Strategy A manifest: each non-blank line with the blank
\* line that follows it
ManifestEntries(text) == {l \o <<NL>> : l \in {x \in Range(ReadLines(text)) : x # <<NL>>}}

\* a step of the summarization loop on a document whose URL is in the log
\* and whose record file exists
CacheHitStep ==
  /\ pc = "summarizing" /\ idx <= Len(docs) /\ idx' = idx + 1
  /\ docs[idx].url \in DOMAIN log
  /\ DirHas(dir, log[docs[idx].url])

\* what C1 says of such a step: the stored content is returned, the model
\* is not invoked, log and record files stay as they are
CacheHitEffect ==
  /\ Last(hist'.calls).ret = Some(DirRead(dir, log[docs[idx].url]))
  /\ hist'.llm_calls = hist.llm_calls
  /\ log' = log /\ logDisk' = logDisk /\ dir' = dir

\* C1 (as stated): for any document whose URL is in the log and whose
\* record file exists, summarize_document returns the stored content, makes
\* no model call and leaves log and record files unchanged.
CacheHitAny_C1 == [][CacheHitStep => CacheHitEffect]_vars

\* C1 (amended): the same for every such document whose URL is not
\* blacklisted; and a call that follows a call on the same URL that returned
\* a record returns the identical record.
CacheHit_C1 ==
  [][/\ (CacheHitStep /\ RStripCh(docs[idx].url, "/") \notin blacklisted_urls)
          => CacheHitEffect
     /\ (/\ pc = "summarizing" /\ idx <= Len(docs) /\ idx' = idx + 1
         /\ idx > 1 /\ docs[idx - 1].url = docs[idx].url
         /\ Last(hist.calls).ret.some)
          => Last(hist'.calls).ret = Last(hist.calls).ret]_vars

\* C1 witness: a call took the cache-hit path and returned the stored record
CacheHit_C1_Witness ==
  /\ hist.calls # <<>>
  /\ Last(hist.calls).path = "cached"
  /\ Last(hist.calls).ret.some

\* C2: after any run a blacklisted URL appears neither in the list
\* summarize_all returned nor in the manifest the final merge wrote,
\* whichever strategy merged.
BlacklistEnforced_C2 ==
  pc = "done" =>
    /\ \A i \in 1..Len(main_summaries.val) :
         RStripCh(PatSearch(main_summaries.val[i]).url, "/") \notin blacklisted_urls
    /\ \A u \in Range(ManifestUrls(manifest.val)) : RStripCh(u, "/") \notin blacklisted_urls

\* C5: however the summarization loop ends, the final merge runs and writes
\* the manifest.
FinalMergeGuaranteed_C5 == pc \in {"done", "crashed"} => hist.merged

\* the calls of the run that returned a record
Succeeded == SelectSeq(hist.calls, LAMBDA c : c.ret.some)

NoCollision ==
  \A i, j \in 1..Len(Succeeded) :
    Succeeded[i].url # Succeeded[j].url =>
      /\ RStripCh(Succeeded[i].url, "/") # RStripCh(Succeeded[j].url, "/")
      /\ _get_summary_filename(Succeeded[i].url) # _get_summary_filename(Succeeded[j].url)

SeedDedup_C9 ==
  (/\ pc = "done" /\ cfg.mode = "crawl" /\ cfg.urls = <<Ua, UaS>>
   /\ cfg.blacklist = <<>> /\ hist.fresh /\ hist.load_errors = 0
   /\ \A i \in 1..Len(hist.calls) : ~hist.calls[i].raised) =>
    /\ Len(docs) = 1
    /\ hist.llm_calls = 1
    /\ Len(dir) = 1
    /\ Cardinality(DOMAIN log) = 1
    /\ Len(ManifestUrls(manifest.val)) = 1

\* C10: in an update-descriptions-only run every entry line Strategy B
\* rewrites keeps the title and the URL it had in the original manifest.
TitlesPreserved_C10 ==
  (pc = "done" /\ hist.strategy = "B") =>
    LET out == ReadLines(manifest.val)
    IN \A i \in 1..Len(existing_file_structure) :
         (/\ PatSearch(existing_file_structure[i]).found
          /\ i <= Len(out)
          /\ out[i] # existing_file_structure[i]) =>
           /\ PatSearch(out[i]).found
           /\ PatSearch(out[i]).title = PatSearch(existing_file_structure[i]).title
           /\ PatSearch(out[i]).url = PatSearch(existing_file_structure[i]).url

\* ------------------------------------------------------ the merge harness
\* The two merge strategies on any directory the Summarizer can leave
\* behind: record files are written by summarize_document, in this process
\* or an earlier one, and either strategy merges at any point.

\* the skeleton lines: a structural line and an entry of two of the URLs
SkeletonLines == {<<"#", NL>>, ManifestLine(Ua), ManifestLine(UaS)}

Skeletons == UNION {[1..k -> SkeletonLines] : k \in 0..MaxLines}

\* two model answers whose one-line forms differ in length by one
MergeLlmOutcomes == {[raises |-> FALSE, content |-> <<"s">>],
                     [raises |-> FALSE, content |-> <<"s", NL, NL, "t">>]}

\* op: the last operation; n: the summarize_document calls so far; arg: the
\* summaries argument of the last merge; again: the last merge directly
\* followed a merge; argc: it had another argument than the merge before;
\* skeleton: the file structure handed to Strategy B; grown: since the last
\* Strategy B merge the process went on and no record file changed;
\* regrown: the last merge was a Strategy B merge after such a period, it
\* found a line replaced before and replaced a line more
MergeStart(skel) ==
  [op |-> "init", n |-> 0, arg |-> <<>>, again |-> FALSE, argc |-> FALSE,
   skeleton |-> skel, grown |-> FALSE, regrown |-> FALSE]

InitHarness(skels) ==
  /\ dir = <<>>
  /\ logDisk = None
  /\ manifest = None
  /\ runs = 0
  /\ pc = "idle"
  /\ cfg = [mode |-> "crawl", urls |-> <<>>, blacklist |-> <<>>]
  /\ docs = <<>>
  /\ idx = 1
  /\ summaries = <<>>
  /\ main_summaries = None
  /\ log = EmptyDict
  /\ url_titles = EmptyDict
  /\ \E b \in BlacklistFiles : blacklisted_urls = _load_blacklist(ReadLines(b))
  /\ existing_file_structure = <<>>
  /\ hist = NoHist
  /\ ld = NoLoad
  /\ \E skel \in skels : mh = MergeStart(skel)

InitMerge == InitHarness({<<>>})

InitPatch == InitHarness(Skeletons)

\* what the merge harness never touches
mergeFrame == <<pc, runs, cfg, docs, idx, main_summaries, url_titles,
                existing_file_structure, hist, ld>>

\* a summarize_document call of the running process, for one of urls, that
\* the model answers
MRecordOf(urls) ==
  /\ mh.n < MaxRecs
  /\ \E u \in urls :
     \E llm \in MergeLlmOutcomes :
     \E pos \in 1..(Len(dir) + 1) :
       LET sm == [log |-> log, dir |-> dir, logDisk |-> logDisk,
                  url_titles |-> url_titles, blacklisted_urls |-> blacklisted_urls]
           r == summarize_document([url |-> u, title |-> Some(PageTitle)], sm, llm, pos)
       IN /\ dir' = r.dir
          /\ log' = r.log
          /\ logDisk' = r.logDisk
          /\ summaries' = IF Truthy(r.ret) THEN Append(summaries, r.ret.val) ELSE summaries
          /\ mh' = [mh EXCEPT !.op = "record", !.n = @ + 1, !.again = FALSE, !.argc = FALSE,
                      !.regrown = FALSE,
                      !.grown = @ /\ \A i \in 1..Len(dir) :
                                       /\ DirHas(r.dir, dir[i].name)
                                       /\ DirRead(r.dir, dir[i].name) = dir[i].content]
  /\ UNCHANGED <<manifest, blacklisted_urls, mergeFrame>>

\* the process ends and another starts: Summarizer.__init__ reads the log
\* and a blacklist file; the list of summaries starts empty
MRestart ==
  /\ mh.op # "restart"
  /\ summaries' = <<>>
  /\ log' = (IF logDisk.some THEN logDisk.val ELSE EmptyDict)
  /\ \E b \in BlacklistFiles : blacklisted_urls' = _load_blacklist(ReadLines(b))
  /\ mh' = [mh EXCEPT !.op = "restart", !.again = FALSE, !.argc = FALSE,
              !.grown = FALSE, !.regrown = FALSE]
  /\ UNCHANGED <<dir, logDisk, manifest, mergeFrame>>

\* the files of the project directory: the manifest, the record files and
\* the persisted log
Files == [manifest |-> manifest, dir |-> dir, logDisk |-> logDisk]

\* a merge that also leaves its text as a file of the summaries directory
WriteOutputAndRecord(fs, text) ==
  [fs EXCEPT !.manifest = Some(text), !.dir = DirWrite(fs.dir, LLMS_TXT, text, 1)]

\* generate_llms_txt, lines 321-323, and generate_structured_llms_txt,
\* lines 398-399: `with open(output_file, 'w') as f` and the writes to f
\* are the only file operations of a merge that change anything
WriteOutput(fs, text) == [fs EXCEPT !.manifest = Some(text)]

\* a call of generate_llms_txt (checkpoint or final): the argument is the
\* list of the run's summaries, or the empty list of main.py line 126
MMergeA ==
  /\ \E arg \in {summaries, <<>>} :
       /\ LET w == WriteOutput(Files, generate_llms_txt(arg, dir, logDisk,
                                                       blacklisted_urls, LLMS_TXT))
          IN manifest' = w.manifest /\ dir' = w.dir /\ logDisk' = w.logDisk
       /\ mh' = [mh EXCEPT !.op = "A", !.arg = arg, !.again = (mh.op = "A"),
                   !.argc = (mh.op = "A" /\ arg # mh.arg),
                   !.grown = FALSE, !.regrown = FALSE]
  /\ UNCHANGED <<log, summaries, blacklisted_urls, mergeFrame>>

\* a call of generate_structured_llms_txt (checkpoint or final) with the
\* skeleton of the run
MMergeB ==
  /\ LET w == WriteOutput(Files, generate_structured_llms_txt(summaries, dir, logDisk,
                                                              LLMS_TXT, mh.skeleton))
     IN manifest' = w.manifest /\ dir' = w.dir /\ logDisk' = w.logDisk
  /\ mh' = [mh EXCEPT !.op = "B", !.arg = summaries, !.again = (mh.op = "B"),
              !.argc = FALSE, !.grown = TRUE,
              !.regrown = /\ mh.grown
                          /\ \E i \in 1..Len(mh.skeleton) :
                               ReadLines(manifest.val)[i] # mh.skeleton[i]
                          /\ \E i \in 1..Len(mh.skeleton) :
                               ReadLines(manifest'.val)[i] # ReadLines(manifest.val)[i]]
  /\ UNCHANGED <<log, summaries, blacklisted_urls, mergeFrame>>

MRecord == MRecordOf(AllUrls)

NextMerge == MRecord \/ MRestart \/ MMergeA

SpecMerge == InitMerge /\ [][NextMerge]_vars

NextPatch == MRecord \/ MRestart \/ MMergeB

SpecPatch == InitPatch /\ [][NextPatch]_vars

\* --------------------------------------------- claims on the merge harness

\* C3: two consecutive invocations of generate_llms_txt with no record
\* written in between write byte-identical files, whatever the file held
\* before and whatever summaries argument each invocation got.
StrategyADeterministic_C3 == [][(mh.op = "A" /\ mh'.op = "A") => manifest' = manifest]_vars

\* C3 witness: a second consecutive Strategy A merge of a directory of two
\* records or more, called with another summaries argument than the first
StrategyADeterministic_C3_Witness ==
  /\ mh.op = "A" /\ mh.again /\ mh.argc
  /\ Len(dir) >= 2
  /\ manifest.val # <<>>

\* the records Strategy B can draw on: the run's summaries and the files
AvailableRecords == Range(mh.arg) \cup {dir[i].content : i \in 1..Len(dir)}

RecordsOfUrl(u) == {c \in AvailableRecords : PatSearch(c).found /\ PatSearch(c).url = u}

\* C4: Strategy B writes as many lines as the skeleton has, in its order;
\* a structural line and an entry line whose URL has no record are written
\* as they are, an entry line whose URL has a record is replaced by the
\* one-line text of a record of that URL.
StructurePreserved_C4 ==
  mh.op = "B" =>
    LET out == ReadLines(manifest.val)
        skel == mh.skeleton
    IN /\ Len(out) = Len(skel)
       /\ \A i \in 1..Len(skel) :
            LET m == PatSearch(skel[i])
            IN IF m.found /\ RecordsOfUrl(m.url) # {}
               THEN out[i] \in {Strip(c) \o <<NL>> : c \in RecordsOfUrl(m.url)}
               ELSE out[i] = skel[i]

\* C4 witness: a patched skeleton with a structural line, an entry line that
\* was replaced and an entry line that had no record
StructurePreserved_C4_Witness ==
  /\ mh.op = "B"
  /\ \E i, j, k \in 1..Len(mh.skeleton) :
       /\ ~PatSearch(mh.skeleton[i]).found
       /\ PatSearch(mh.skeleton[j]).found
       /\ ReadLines(manifest.val)[j] # mh.skeleton[j]
       /\ PatSearch(mh.skeleton[k]).found
       /\ RecordsOfUrl(PatSearch(mh.skeleton[k]).url) = {}

\* C7: the manifest generate_llms_txt writes has at most one entry per
\* normalized URL key (lowercased, trailing slash stripped).
OneEntryPerKey_C7 ==
  mh.op = "A" =>
    LET urls == ManifestUrls(manifest.val)
    IN \A i, j \in 1..Len(urls) :
         i # j => normalize_url(urls[i]) # normalize_url(urls[j])

\* ------------------------------------------- load_urls_directly, stepwise

\* what a GET can answer: an error, a page with no title, a page with one
Pages == {[ok |-> FALSE, title |-> None],
          [ok |-> TRUE, title |-> None],
          [ok |-> TRUE, title |-> Some(PageTitle)]}

\* a task of the gather that has not finished
Pending == [some |-> FALSE, val |-> "pending"]

\* the URLs handed to the direct loader: three normalized keys
LoadUrls == AllUrls \cup {<<H, "/", "B">>}

\* a gather that returns as soon as one task has finished
GatherDoneFirst(results) == \E i \in 1..Len(results) : results[i] # Pending

\* line 143: `await asyncio.gather(*tasks, return_exceptions=True)` returns
\* when every task has finished, by returning or by raising
GatherDone(results) == \A i \in 1..Len(results) : results[i] # Pending

\* load_urls_directly, lines 93-130: the call has deduplicated its argument
\* into unique_batches and has fetched nothing yet.  fetched lists the URLs
\* of the GETs sent, in the order they were sent; failed is the set of the
\* URLs whose fetch_url returned None; open is the set of the URLs whose
\* fetch_url task has been created and has not finished.
InitLoad ==
  /\ dir = <<>>
  /\ logDisk = None
  /\ manifest = None
  /\ runs = 0
  /\ NoProcess
  /\ mh = NoMerge
  /\ \E urls \in UNION {[1..k -> LoadUrls] : k \in 0..MaxLoad} :
       ld = [pc |-> "next", urls |-> urls, unique_batches |-> UniqueBatches(urls, {}),
             batch |-> <<>>, results |-> <<>>, docs |-> <<>>, fetched |-> <<>>,
             failed |-> {}, open |-> {}]

\* what the loader never touches
loadFrame == <<dir, logDisk, manifest, pc, runs, cfg, docs, idx, summaries,
               main_summaries, log, url_titles, blacklisted_urls,
               existing_file_structure, hist, mh>>

\* lines 133-143: the next batch; one fetch_url task per URL of the batch
LBatch ==
  /\ ld.pc = "next"
  /\ ld.unique_batches # <<>>
  /\ ld' = [ld EXCEPT !.pc = "gather",
                      !.batch = Head(ld.unique_batches),
                      !.unique_batches = Tail(ld.unique_batches),
                      !.results = [i \in 1..Len(Head(ld.unique_batches)) |-> Pending],
                      !.open = @ \cup Range(Head(ld.unique_batches))]
  /\ UNCHANGED loadFrame

\* fetch_url, lines 184-211: one task of the gather sends its GET and
\* finishes; the tasks of a batch finish in any order
LFetch ==
  /\ ld.pc = "gather"
  /\ \E i \in 1..Len(ld.batch) :
     \E page \in Pages :
       /\ ld.results[i] = Pending
       /\ ld' = [ld EXCEPT !.results[i] = fetch_url(ld.batch[i], page),
                           !.fetched = Append(@, ld.batch[i]),
                           !.failed = IF page.ok THEN @ ELSE @ \cup {ld.batch[i]},
                           !.open = @ \ {ld.batch[i]}]
  /\ UNCHANGED loadFrame

\* lines 146-156: every task has finished; the batch's Documents are added
LGather ==
  /\ ld.pc = "gather"
  /\ GatherDone(ld.results)
  /\ ld' = [ld EXCEPT !.pc = "next",
                      !.docs = @ \o BatchDocs(ld.results),
                      !.batch = <<>>,
                      !.results = <<>>]
  /\ UNCHANGED loadFrame

\* line 169: no batch is left; the Documents are returned
LReturn ==
  /\ ld.pc = "next"
  /\ ld.unique_batches = <<>>
  /\ ld' = [ld EXCEPT !.pc = "done"]
  /\ UNCHANGED loadFrame

NextLoad == LBatch \/ LFetch \/ LGather \/ LReturn

SpecLoader == InitLoad /\ [][NextLoad]_vars

\* no two elements of a sequence of URLs have the same normalized key
DistinctKeys(urls) ==
  \A i, j \in 1..Len(urls) : i # j => normalize_url(urls[i]) # normalize_url(urls[j])

\* C8: load_urls_directly fetches each normalized URL key at most once and
\* emits at most one Document per key; for the list of a URL and the same
\* URL with a trailing slash it sends one GET and returns at most one
\* Document.
DirectDedup_C8 ==
  ld.pc # "off" =>
    /\ DistinctKeys(ld.fetched)
    /\ DistinctKeys([i \in 1..Len(ld.docs) |-> ld.docs[i].url])
    /\ (ld.pc = "done" /\ ld.urls = <<Ua, UaS>>) =>
         (ld.fetched = <<Ua>> /\ Len(ld.docs) <= 1)

\* C8 witness: the call for a URL, its trailing-slash variant and its
\* uppercase variant has returned one Document after one GET
DirectDedup_C8_Witness ==
  /\ ld.pc = "done"
  /\ ld.urls = <<Ua, UaS, UA>>
  /\ Len(ld.fetched) = 1
  /\ Len(ld.docs) = 1

\* --------------------------------------- the record store, writes failing
\* summarize_document writes the record file (lines 206-207), then puts the
\* URL into the in-memory log (210), then rewrites the log file (211, 95-98).
\* Either open(..., 'w') can raise, and either write can be cut short after
\* open has truncated the file; `except Exception` (215-217) returns None.

MaxStore == 2

\* what the two writes of one call do: both succeed, the record file cannot
\* be opened, its write is cut short, the log file cannot be opened, its
\* write is cut short
IoOutcomes == {"ok", "file_open", "file_cut", "log_open", "log_cut"}

\* a summarize_document that rewrites the log before it writes the record
summarize_document_io_log_first(doc, sm, llm, pos, io) ==
  LET r == summarize_document(doc, sm, llm, pos)
  IN IF r.path # "new" THEN r @@ [cut |-> sm.cut]
     ELSE IF io \in {"file_open", "file_cut"}
     THEN [r EXCEPT !.ret = None, !.path = "fault", !.dir = sm.dir] @@ [cut |-> FALSE]
     ELSE r @@ [cut |-> FALSE]

\* summarize_document with the outcome io of its writes.  cut tells whether
\* the log file is left cut short (not parseable); the value of logDisk is
\* then the empty dict.
summarize_document_io(doc, sm, llm, pos, io) ==
  LET r == summarize_document(doc, sm, llm, pos)
      none == [r EXCEPT !.ret = None, !.path = "fault"]
  IN IF r.path # "new" THEN r @@ [cut |-> sm.cut]
     ELSE IF io = "ok" THEN r @@ [cut |-> FALSE]
     ELSE IF io = "file_open"
     THEN [none EXCEPT !.log = sm.log, !.dir = sm.dir, !.logDisk = sm.logDisk]
            @@ [cut |-> sm.cut]
     ELSE IF io = "file_cut"
     THEN [none EXCEPT !.log = sm.log, !.logDisk = sm.logDisk,
                       !.dir = DirWrite(sm.dir, _get_summary_filename(doc.url), <<>>, pos)]
            @@ [cut |-> sm.cut]
     ELSE IF io = "log_open"
     THEN [none EXCEPT !.logDisk = sm.logDisk] @@ [cut |-> sm.cut]
     ELSE [none EXCEPT !.logDisk = Some(EmptyDict)] @@ [cut |-> TRUE]

\* op: the last operation; n: the summarize_document calls so far; cut: the
\* log file is cut short
StoreStart == [op |-> "init", n |-> 0, cut |-> FALSE]

InitStore ==
  /\ dir = <<>>
  /\ logDisk = None
  /\ manifest = None
  /\ runs = 0
  /\ NoProcess
  /\ ld = NoLoad
  /\ mh = StoreStart

\* what the store's operations never touch
storeFrame == <<pc, runs, cfg, docs, idx, main_summaries, url_titles,
                existing_file_structure, hist, ld>>

\* one summarize_document call of the running process
SRecord ==
  /\ mh.op # "aborted"
  /\ mh.n < MaxStore
  /\ \E u \in AllUrls :
     \E llm \in LlmOutcomes :
     \E io \in IoOutcomes :
     \E pos \in 1..(Len(dir) + 1) :
       LET sm == [log |-> log, dir |-> dir, logDisk |-> logDisk, cut |-> mh.cut,
                  url_titles |-> url_titles, blacklisted_urls |-> blacklisted_urls]
           r == summarize_document_io([url |-> u, title |-> Some(PageTitle)], sm, llm, pos, io)
       IN /\ dir' = r.dir
          /\ log' = r.log
          /\ logDisk' = r.logDisk
          /\ summaries' = IF Truthy(r.ret) THEN Append(summaries, r.ret.val) ELSE summaries
          /\ mh' = [op |-> "record", n |-> mh.n + 1, cut |-> r.cut]
  /\ UNCHANGED <<manifest, blacklisted_urls, storeFrame>>

\* the process ends (or is killed) and Summarizer.__init__ runs in the next
\* one: _load_log reads the log file; json.load raises on a file cut short
\* and the new process ends before it summarizes anything
SRestart ==
  /\ mh.op \notin {"restart", "aborted"}
  /\ summaries' = <<>>
  /\ IF mh.cut
     THEN /\ log' = EmptyDict
          /\ blacklisted_urls' = {}
          /\ mh' = [mh EXCEPT !.op = "aborted"]
     ELSE /\ log' = (IF logDisk.some THEN logDisk.val ELSE EmptyDict)
          /\ \E b \in BlacklistFiles : blacklisted_urls' = _load_blacklist(ReadLines(b))
          /\ mh' = [mh EXCEPT !.op = "restart"]
  /\ UNCHANGED <<dir, logDisk, manifest, storeFrame>>

\* a checkpoint or final merge by generate_llms_txt
SMerge ==
  /\ mh.op \notin {"merge", "aborted"}
  /\ manifest' = Some(generate_llms_txt(summaries, dir, logDisk, blacklisted_urls, LLMS_TXT))
  /\ mh' = [mh EXCEPT !.op = "merge"]
  /\ UNCHANGED <<dir, logDisk, log, summaries, blacklisted_urls, storeFrame>>

NextStore == SRecord \/ SRestart \/ SMerge

SpecStore == InitStore /\ [][NextStore]_vars

\* the persisted log can be read and holds entry u -> f
Persisted(ldisk, cut, u) == ldisk.some /\ ~cut /\ u \in DOMAIN ldisk.val

\* C11: an entry of the summarization log is never removed and never
\* remapped: every step keeps every entry of the persisted log with its
\* file name, and a process that starts has every persisted entry in its log.
RecordedIsTerminal_C11 ==
  [][\A u \in AllUrls :
       Persisted(logDisk, mh.cut, u) =>
         /\ Persisted(logDisk', mh'.cut, u)
         /\ logDisk'.val[u] = logDisk.val[u]
         /\ mh'.op = "restart" => (u \in DOMAIN log' /\ log'[u] = logDisk.val[u])]_vars

\* C20: every URL of the persisted log maps to a record file that exists in
\* the output directory, whichever write of summarize_document failed.
LogImpliesFile_C20 ==
  \A u \in AllUrls :
    Persisted(logDisk, mh.cut, u) => DirHas(dir, logDisk.val[u])

\* C20 witness: the log holds an entry and a later call wrote its record
\* file but failed to rewrite the log
LogImpliesFile_C20_Witness ==
  /\ mh.op = "record"
  /\ logDisk.some /\ ~mh.cut /\ DOMAIN logDisk.val # {}
  /\ DOMAIN log # DOMAIN logDisk.val
  /\ Len(dir) = 2

\* ------------------------------------------- summarize_all on longer lists

MaxDocs == 6

\* the URLs of the longer runs
LoopUrls == {Ua, UaS}

\* generate_llms_txt has loaded the Documents of a crawl of up to MaxDocs
\* seeds, none failing, into an empty project directory and has built the
\* Summarizer: summarize_all starts
InitLoop ==
  /\ dir = <<>>
  /\ logDisk = None
  /\ manifest = None
  /\ runs = 1
  /\ pc = "summarizing"
  /\ \E urls \in UNION {[1..k -> LoopUrls] : k \in 0..MaxDocs} :
     \E b \in BlacklistFiles :
       /\ cfg = [mode |-> "crawl", urls |-> urls, blacklist |-> b]
       /\ docs = load_urls(urls, None, [u \in LoopUrls |-> [ok |-> TRUE, title |-> Some(PageTitle)]],
                           [i \in 1..Len(urls) |-> [ok |-> TRUE, title |-> Some(PageTitle)]])
       /\ blacklisted_urls = _load_blacklist(ReadLines(b))
  /\ idx = 1
  /\ summaries = <<>>
  /\ main_summaries = None
  /\ log = EmptyDict
  /\ url_titles = EmptyDict
  /\ existing_file_structure = <<>>
  /\ hist = NoHist
  /\ ld = NoLoad
  /\ mh = NoMerge

NextLoop == SummarizeStep \/ LoopReturn \/ Interrupt \/ Finally

SpecLoop == InitLoop /\ [][NextLoop]_vars

\* C12: an iteration of summarize_all performs a checkpoint merge exactly
\* when it produced a record and the number of records produced in the run
\* is then a multiple of five; the checkpoint writes the manifest of the
\* directory as it then is, and at most four produced records are later
\* than the last checkpoint.
CheckpointCadence_C12 ==
  [][(pc = "summarizing" /\ idx' = idx + 1) =>
       LET produced == Len(summaries') = Len(summaries) + 1
           due == produced /\ Len(summaries') % 5 = 0
       IN /\ hist'.checkpoints = hist.checkpoints + (IF due THEN 1 ELSE 0)
          /\ due => /\ manifest' = Some(generate_llms_txt(summaries', dir', logDisk',
                                                         blacklisted_urls, LLMS_TXT))
                    /\ hist'.checkpointed = Len(summaries')
          /\ ~due => (manifest' = manifest /\ hist'.checkpointed = hist.checkpointed)
          /\ Len(summaries') - hist'.checkpointed \in 0..4]_vars

\* C12 witness: the first model call raised, the next five documents gave a
\* record each, and the sixth iteration made the only checkpoint
CheckpointCadence_C12_Witness ==
  /\ pc = "summarizing"
  /\ Len(hist.calls) = 6
  /\ hist.calls[1].raised
  /\ Len(summaries) = 5
  /\ hist.checkpoints = 1
  /\ manifest.some

\* ----------------------------------------------- more claims on the loader

\* the first raw variant of every normalized key of a URL list, in order
FirstVariants(urls) ==
  LET IsFirst(i) == \A j \in 1..(i - 1) : normalize_url(urls[j]) # normalize_url(urls[i])
      firsts == SelectSeq([i \in 1..Len(urls) |-> i], IsFirst)
  IN [k \in 1..Len(firsts) |-> urls[firsts[k]]]

\* C13: whatever the order in which the fetches of a batch finish,
\* load_urls_directly returns the Documents of the first variants of the
\* keys, in the order of the argument, less the URLs whose fetch failed.
EmissionOrder_C13 ==
  ld.pc = "done" =>
    LET Fetched(u) == u \notin ld.failed
    IN [i \in 1..Len(ld.docs) |-> ld.docs[i].url] = SelectSeq(FirstVariants(ld.urls), Fetched)

\* C13 witness: the second fetch of a batch finished before the first, a
\* duplicate was dropped, and the Documents are in the order of the list
EmissionOrder_C13_Witness ==
  /\ ld.pc = "done"
  /\ ld.urls = <<UaQ, Ua, UaS>>
  /\ ld.fetched = <<Ua, UaQ>>
  /\ [i \in 1..Len(ld.docs) |-> ld.docs[i].url] = <<UaQ, Ua>>

\* ------------------------------------------------- more claims on Strategy A

\* C14: after generate_llms_txt the manifest has an entry for the normalized
\* key of every record file whose URL is not blacklisted, whichever process
\* wrote the file, and every entry of the manifest is the content of a
\* record file.
DerivedView_C14 ==
  mh.op = "A" =>
    /\ \A i \in 1..Len(dir) :
         LET m == PatSearch(dir[i].content)
         IN (m.found /\ RStripCh(m.url, "/") \notin blacklisted_urls) =>
              \E u \in Range(ManifestUrls(manifest.val)) :
                normalize_url(u) = normalize_url(m.url)
    /\ ManifestEntries(manifest.val) \subseteq {dir[i].content : i \in 1..Len(dir)}
    /\ Len(ReadLines(manifest.val)) = 2 * Cardinality(ManifestEntries(manifest.val))

\* C14 witness: a process that wrote no record itself merged two record
\* files of an earlier process, one of them blacklisted by now
DerivedView_C14_Witness ==
  /\ mh.op = "A"
  /\ summaries = <<>>
  /\ Len(dir) = 2
  /\ blacklisted_urls # {}
  /\ Len(ManifestUrls(manifest.val)) = 1

\* a page whose path is an uppercase letter that sorts before "a" and whose
\* lowercase form sorts after it
UB == <<H, "/", "B">>

OrderUrls == {Ua, UA, UB}

ORecord == MRecordOf(OrderUrls)

NextOrder == ORecord \/ MRestart \/ MMergeA

SpecOrder == InitMerge /\ [][NextOrder]_vars

\* C15: the entries of the manifest generate_llms_txt writes are in
\* ascending order of their normalized URL key (lowercased, trailing
\* slashes stripped): no entry's key is less than the key of an entry
\* before it.
SortedByKey_C15 ==
  mh.op = "A" =>
    LET urls == ManifestUrls(manifest.val)
    IN \A i, j \in 1..Len(urls) :
         i < j => ~StrLess(normalize_url(urls[j]), normalize_url(urls[i]))

\* ------------------------------------------------------- normalize_url alone

MaxLen == 3

\* the characters of the strings handed to normalize_url
UrlChars == {H, "/", "a", "A"}

UrlStrings == UNION {[1..k -> UrlChars] : k \in 0..MaxLen}

\* two strings wait to be normalized
InitNorm ==
  /\ dir = <<>>
  /\ logDisk = None
  /\ manifest = None
  /\ runs = 0
  /\ NoProcess
  /\ mh = NoMerge
  /\ \E u \in UrlStrings :
     \E v \in UrlStrings :
       ld = [pc |-> "input", u |-> u, v |-> v, ku |-> <<>>, kv |-> <<>>, kku |-> <<>>]

\* normalize_url is called on each string and on the key of the first
Normalize ==
  /\ ld.pc = "input"
  /\ ld' = [ld EXCEPT !.pc = "keys",
                      !.ku = normalize_url(ld.u),
                      !.kv = normalize_url(ld.v),
                      !.kku = normalize_url(normalize_url(ld.u))]
  /\ UNCHANGED loadFrame

NextNorm == Normalize

SpecNorm == InitNorm /\ [][NextNorm]_vars

\* u and v agree up to letter case on a common prefix and have only
\* slashes after it
DifferByCaseOrSlashes(u, v) ==
  \E n \in 0..Len(u) :
    /\ n <= Len(v)
    /\ \A i \in 1..n : LowerCh(u[i]) = LowerCh(v[i])
    /\ \A i \in (n + 1)..Len(u) : u[i] = "/"
    /\ \A i \in (n + 1)..Len(v) : v[i] = "/"

\* C16: normalize_url gives a key for every string, the key of a key is the
\* key itself, and two strings that differ only by letter case or by
\* trailing slashes have the same key.
NormalizerLaws_C16 ==
  ld.pc = "keys" =>
    /\ ld.kku = ld.ku
    /\ DifferByCaseOrSlashes(ld.u, ld.v) => ld.ku = ld.kv

\* C16 witness: an uppercase URL with a trailing slash and its lowercase
\* form without one got the same key
NormalizerLaws_C16_Witness ==
  /\ ld.pc = "keys"
  /\ ld.u = <<H, "A", "/">>
  /\ ld.v = <<H, "a">>
  /\ ld.ku = <<H, "a">>
  /\ ld.kv = ld.ku

\* ------------------------------------------- more claims on the pipeline

BlacklistByKey_C18 ==
  [][(mh'.op = "record" /\ Len(summaries') = Len(summaries) + 1) =>
       normalize_url(PatSearch(Last(summaries')).url)
         \notin {normalize_url(b) : b \in blacklisted_urls}]_vars

\* C19: a summarize_document call that returns no record because the URL is
\* blacklisted or because the model call raised leaves the in-memory log,
\* the persisted log and the record files as they were.
NoRecordNoChange_C19 ==
  [][(/\ pc = "summarizing" /\ idx' = idx + 1
      /\ Last(hist'.calls).path \in {"blacklisted", "error"}) =>
       /\ Last(hist'.calls).ret = None
       /\ log' = log /\ logDisk' = logDisk /\ dir' = dir]_vars

\* C19 witness: in a directory that holds a record, a run skipped a
\* blacklisted document and then had the model call of another one raise
NoRecordNoChange_C19_Witness ==
  /\ Len(hist.calls) = 2
  /\ hist.calls[1].path = "blacklisted"
  /\ hist.calls[2].path = "error"
  /\ dir # <<>> /\ logDisk.some

\* ------------------------------------------------- the records, call by call
\* summarize_document on Documents that fetch_url built, in a summaries
\* directory whose files the user can remove between the calls.

MaxCalls == 2

\* the pages of the site: no <title>, a one-line title, a title that runs
\* over two lines
Htmls == {<<"x">>,
          <<TOPEN, "P", TCLOSE, "x">>,
          <<TOPEN, SP, "P", NL, "P", NL, TCLOSE, "x">>}

\* what llm.invoke does: it raises, it answers in two lines, it answers with
\* a blank line between its two lines and a line end after them
CallLlmOutcomes == {[raises |-> TRUE, content |-> <<>>],
                    [raises |-> FALSE, content |-> <<"s", NL, "t">>],
                    [raises |-> FALSE, content |-> <<"s", NL, NL, "t", NL>>]}

\* op: the last operation; n: the summarize_document calls so far; last: the
\* last call - its URL, the model's behaviour, whether the URL was in the
\* log and its record file existed when the call began, and what it did
RecordsStart == [op |-> "init", n |-> 0, last |-> <<>>]

InitRecords ==
  /\ dir = <<>>
  /\ logDisk = None
  /\ manifest = None
  /\ runs = 0
  /\ pc = "idle"
  /\ cfg = [mode |-> "direct", urls |-> <<>>, blacklist |-> <<>>]
  /\ docs = <<>>
  /\ idx = 1
  /\ summaries = <<>>
  /\ main_summaries = None
  /\ log = EmptyDict
  /\ url_titles = EmptyDict
  /\ \E b \in BlacklistFiles : blacklisted_urls = _load_blacklist(ReadLines(b))
  /\ existing_file_structure = <<>>
  /\ hist = NoHist
  /\ ld = NoLoad
  /\ mh = RecordsStart

\* one summarize_document call on the Document of a fetched page
RCall ==
  /\ mh.n < MaxCalls
  /\ \E u \in AllUrls :
     \E html \in Htmls :
     \E llm \in CallLlmOutcomes :
     \E pos \in 1..(Len(dir) + 1) :
       LET doc == fetch_url(u, [ok |-> TRUE, title |-> extract_title(html)]).val
           sm == [log |-> log, dir |-> dir, logDisk |-> logDisk,
                  url_titles |-> url_titles, blacklisted_urls |-> blacklisted_urls]
           r == summarize_document(doc, sm, llm, pos)
       IN /\ dir' = r.dir
          /\ log' = r.log
          /\ logDisk' = r.logDisk
          /\ summaries' = IF Truthy(r.ret) THEN Append(summaries, r.ret.val) ELSE summaries
          /\ mh' = [op |-> "call", n |-> mh.n + 1,
                    last |-> [url |-> u, llm |-> llm,
                              inlog |-> u \in DOMAIN log,
                              hadfile |-> u \in DOMAIN log /\ DirHas(dir, log[u]),
                              path |-> r.path, ret |-> r.ret, called |-> r.called]]
  /\ UNCHANGED <<manifest, blacklisted_urls, mergeFrame>>

\* the user removes a record file from the summaries directory
RRemove ==
  /\ \E i \in 1..Len(dir) :
       dir' = SubSeq(dir, 1, i - 1) \o SubSeq(dir, i + 1, Len(dir))
  /\ mh' = [mh EXCEPT !.op = "remove"]
  /\ UNCHANGED <<logDisk, log, summaries, manifest, blacklisted_urls, mergeFrame>>

\* the process ends and another starts: Summarizer.__init__ reads the log
\* and a blacklist file
RRestart ==
  /\ mh.op # "restart"
  /\ summaries' = <<>>
  /\ log' = (IF logDisk.some THEN logDisk.val ELSE EmptyDict)
  /\ \E b \in BlacklistFiles : blacklisted_urls' = _load_blacklist(ReadLines(b))
  /\ mh' = [mh EXCEPT !.op = "restart"]
  /\ UNCHANGED <<dir, logDisk, manifest, mergeFrame>>

NextRecords == RCall \/ RRemove \/ RRestart

SpecRecords == InitRecords /\ [][NextRecords]_vars

\* C21: when the URL of a document is in the log, is not blacklisted, and its
\* record file does not exist, summarize_document invokes the model and,
\* when the model answers, writes the record file anew and returns the new
\* record.
CacheNeedsFile_C21 ==
  (/\ mh.op = "call" /\ mh.last.inlog /\ ~mh.last.hadfile
   /\ mh.last.path # "blacklisted") =>
    /\ mh.last.called
    /\ ~mh.last.llm.raises =>
         /\ mh.last.ret.some
         /\ DirHas(dir, _get_summary_filename(mh.last.url))
         /\ DirRead(dir, _get_summary_filename(mh.last.url)) = mh.last.ret.val

\* C22: every record summarize_document writes is one physical line of the
\* form [title](url): description, followed by a blank line, whatever the
\* model answered and wherever the title came from.
SingleLineRecords_C22 ==
  (mh.op = "call" /\ mh.last.path = "new") =>
    LET lines == ReadLines(DirRead(dir, _get_summary_filename(mh.last.url)))
    IN /\ Len(lines) = 2
       /\ lines[2] = <<NL>>
       /\ PatSearch(lines[1]).found
       /\ PatSearch(lines[1]).start = 1
       /\ PatSearch(lines[1]).url = mh.last.url

\* C23: no summarize_document call overwrites or deletes a record file that
\* was written before, and no two URLs of the log share a record file name.
WriteOnce_C23 ==
  [][(mh'.op = "call" /\ mh'.n = mh.n + 1) =>
       /\ \A i \in 1..Len(dir) :
            /\ DirHas(dir', dir[i].name)
            /\ DirRead(dir', dir[i].name) = dir[i].content
       /\ \A u, v \in DOMAIN log' : u # v => log'[u] # log'[v]]_vars

\* ------------------------------------------ summarize_all on a long manifest

\* five pages whose normalized keys differ: the direct loader keeps them all
UpdateUrls == <<Ua, UaQ, UB, <<H>>, <<H, "/", "a", "/", "a">>>>

\* generate_llms_txt has read an existing manifest of the first pages of
\* UpdateUrls (or got them as seeds), has loaded their Documents, none
\* failing, into an empty project directory and has built the Summarizer:
\* summarize_all starts
InitUpdate ==
  /\ dir = <<>>
  /\ logDisk = None
  /\ manifest = None
  /\ runs = 1
  /\ pc = "summarizing"
  /\ \E k \in 0..Len(UpdateUrls) :
     \E mode \in {"crawl", "direct", "update"} :
     \E b \in BlacklistFiles :
       LET c == [mode |-> mode, urls |-> SubSeq(UpdateUrls, 1, k), blacklist |-> b]
           page == [ok |-> TRUE, title |-> Some(PageTitle)]
       IN /\ cfg = c
          /\ docs = load_urls(UrlsArg(c), ExistingFile(c),
                              [u \in Range(UpdateUrls) |-> page], [i \in 1..k |-> page])
          /\ existing_file_structure = ExistingStructure(c)
          /\ url_titles = ExistingTitles(c)
          /\ blacklisted_urls = _load_blacklist(ReadLines(b))
  /\ idx = 1
  /\ summaries = <<>>
  /\ main_summaries = None
  /\ log = EmptyDict
  /\ hist = NoHist
  /\ ld = NoLoad
  /\ mh = NoMerge

NextUpdate == SummarizeStep \/ LoopReturn \/ Interrupt \/ Finally

SpecUpdate == InitUpdate /\ [][NextUpdate]_vars

\* C24: a checkpoint merge of summarize_all writes what the strategy of the
\* run's final merge writes for the same summaries and directory: the
\* structure-preserving patch in an update-descriptions-only run with a
\* skeleton, the sorted rebuild otherwise.
CheckpointStrategy_C24 ==
  [][(pc = "summarizing" /\ hist'.checkpoints = hist.checkpoints + 1) =>
       manifest' = Some(FinalText(cfg, summaries', dir', logDisk', blacklisted_urls,
                                  existing_file_structure))]_vars

\* ------------------------------------------- Strategy A on duplicate records

\* the contents of the record files whose URL, less its trailing slashes, is k
ContentsOfKey(k) ==
  {dir[i].content : i \in {j \in 1..Len(dir) :
      PatSearch(dir[j].content).found /\ RStripCh(PatSearch(dir[j].content).url, "/") = k}}

StrategyBMonotone_C26 ==
  [][(mh'.op = "B" /\ mh.grown) =>
       LET old == ReadLines(manifest.val)
           new == ReadLines(manifest'.val)
           skel == mh.skeleton
       IN /\ (mh.op = "B" => manifest' = manifest)
          /\ Len(new) = Len(old)
          /\ \A i \in 1..Len(skel) :
               /\ old[i] # skel[i] => new[i] = old[i]
               /\ new[i] # old[i] => (old[i] = skel[i] /\ PatSearch(skel[i]).found)]_vars

\* C26 witness: a checkpoint replaced one entry line, a record of another
\* URL was written, and the next merge replaced a second entry line
StrategyBMonotone_C26_Witness ==
  /\ mh.op = "B" /\ mh.regrown
  /\ Len(dir) = 2
  /\ \E i, j \in 1..Len(mh.skeleton) :
       /\ i # j
       /\ ReadLines(manifest.val)[i] # mh.skeleton[i]
       /\ ReadLines(manifest.val)[j] # mh.skeleton[j]

\* ------------------------------------------------ the batches of the loader

\* C27: the fetches that have started and not finished all belong to the
\* batch under way and are at most batch_size many; between two batches and
\* when the next batch starts no fetch is unfinished, and each one that
\* finished did so with a Document or with a failure.
BatchBarrier_C27 ==
  ld.pc # "off" =>
    /\ Cardinality(ld.open) <= batch_size
    /\ ld.open \subseteq Range(ld.batch)
    /\ ld.pc \in {"next", "done"} => ld.open = {}
    /\ \A u \in Range(ld.fetched) :
         \/ u \in ld.open
         \/ u \in ld.failed
         \/ (\E i \in 1..Len(ld.docs) : ld.docs[i].url = u)
         \/ (\E j \in 1..Len(ld.batch) : ld.batch[j] = u /\ ld.results[j].some)

\* C27 witness: the two fetches of the first batch finished, the second one
\* first and the first one with a failure, and the only fetch of the second
\* batch is under way
BatchBarrier_C27_Witness ==
  /\ ld.pc = "gather"
  /\ ld.urls = <<Ua, UaQ, <<H, "/", "B">>>>
  /\ ld.fetched = <<UaQ, Ua>>
  /\ ld.failed = {Ua}
  /\ ld.batch = <<<<H, "/", "B">>>>
  /\ ld.open = {<<H, "/", "B">>}

\* ------------------------------------------------------- load_urls as a whole

\* load_urls is about to be called: with seeds and no existing file (crawl)
\* or with an existing manifest of the URLs (direct); ok[i] tells whether
\* loading the i-th URL succeeds
InitLoadAll ==
  /\ dir = <<>>
  /\ logDisk = None
  /\ manifest = None
  /\ runs = 0
  /\ NoProcess
  /\ mh = NoMerge
  /\ \E mode \in {"crawl", "direct"} :
     \E urls \in UNION {[1..k -> LoadUrls] : k \in 0..MaxLoad} :
     \E ok \in [1..Len(urls) -> BOOLEAN] :
       ld = [pc |-> "call", mode |-> mode, urls |-> urls, ok |-> ok, docs |-> <<>>]

\* load_urls, lines 35-79
LoadAll ==
  /\ ld.pc = "call"
  /\ LET c == [mode |-> ld.mode, urls |-> ld.urls, blacklist |-> <<>>]
         web == [u \in LoadUrls |->
                   IF \E i \in 1..Len(ld.urls) : ld.urls[i] = u /\ ~ld.ok[i]
                   THEN [ok |-> FALSE, title |-> None]
                   ELSE [ok |-> TRUE, title |-> Some(PageTitle)]]
         crawl == [i \in 1..Len(ld.urls) |-> [ok |-> ld.ok[i], title |-> Some(PageTitle)]]
     IN ld' = [ld EXCEPT !.pc = "returned",
                         !.docs = load_urls(UrlsArg(c), ExistingFile(c), web, crawl)]
  /\ UNCHANGED loadFrame

NextLoadAll == LoadAll

SpecLoadAll == InitLoadAll /\ [][NextLoadAll]_vars

\* the URLs whose loading fails
FailingUrls == {ld.urls[i] : i \in {j \in 1..Len(ld.urls) : ~ld.ok[j]}}

\* C28: load_urls returns whatever fails.  In a crawl it returns one
\* Document per seed that did not fail, in the order of the seeds; in direct
\* mode it returns one Document per normalized key whose first URL did not
\* fail, in the order of the list.  No Document has a failing URL.
LoaderIsolation_C28 ==
  ld.pc = "returned" =>
    LET loaded == [i \in 1..Len(ld.docs) |-> ld.docs[i].url]
        Good(u) == u \notin FailingUrls
        GoodSeed(i) == ld.ok[i]
        seeds == SelectSeq([i \in 1..Len(ld.urls) |-> i], GoodSeed)
    IN /\ ld.mode = "crawl" => loaded = [k \in 1..Len(seeds) |-> ld.urls[seeds[k]]]
       /\ ld.mode = "direct" => loaded = SelectSeq(FirstVariants(ld.urls), Good)

\* C28 witness: the crawl of the second of three seeds raised and the
\* Documents of the first and the third were returned
LoaderIsolation_C28_Witness ==
  /\ ld.pc = "returned"
  /\ ld.mode = "crawl"
  /\ ld.urls = <<Ua, UaQ, <<H, "/", "B">>>>
  /\ ld.ok = <<TRUE, FALSE, TRUE>>
  /\ Len(ld.docs) = 2
  /\ ld.docs[2].url = <<H, "/", "B">>

\* ------------------------------------------- the order of the summarization

\* the calls of the run that wrote a record file and a log entry
Written == SelectSeq(hist.calls, LAMBDA c : c.path = "new")

\* C29: summarize_all calls summarize_document for one document after the
\* other, in the order of the Loader's list: the k-th call is for the k-th
\* Document and has ended before the next begins, so record files and log
\* entries are written in that order; the list summarize_all builds and
\* returns holds the returned records in that order.
SequentialOrder_C29 ==
  pc \in {"summarizing", "finally", "done"} =>
    /\ Len(hist.calls) = idx - 1
    /\ \A i \in 1..Len(hist.calls) : hist.calls[i].url = docs[i].url
    /\ \A i \in 1..Len(Written) :
         /\ Written[i].url \in DOMAIN log
         /\ DirHas(dir, log[Written[i].url])
    /\ summaries = [i \in 1..Len(Succeeded) |-> Succeeded[i].ret.val]
    /\ pc = "done" => main_summaries = Some(summaries)

\* C29 witness: a run over two Documents wrote the record of the first, then
\* the record of the second, and returned the two in that order
SequentialOrder_C29_Witness ==
  /\ pc = "done"
  /\ Len(docs) = 2
  /\ docs[1].url # docs[2].url
  /\ Len(Written) = 2
  /\ Len(dir) = 2
  /\ main_summaries.val = <<hist.calls[1].ret.val, hist.calls[2].ret.val>>
  /\ PatSearch(main_summaries.val[1]).url = docs[1].url
  /\ PatSearch(main_summaries.val[2]).url = docs[2].url

\* ------------------------------------------ parse_existing_llms_file_content

MaxParse == 3

\* a description as it stands after the colon
DescriptionRaw(line_stripped, description_start) ==
  SubSeq(line_stripped, description_start + 1, Len(line_stripped))

\* parse_existing_llms_file_content, line 374:
\* line_stripped[description_start + 1:].strip()
DescriptionOf(line_stripped, description_start) ==
  Strip(SubSeq(line_stripped, description_start + 1, Len(line_stripped)))

\* parse_existing_llms_file_content, lines 357-375: the loop over the lines;
\* description_start is line_stripped.find(':', match.end())
RECURSIVE ParseDescriptions(_, _)
ParseDescriptions(lines, url_to_description) ==
  IF lines = <<>> THEN url_to_description
  ELSE LET line_stripped == Strip(Head(lines))
           match == PatSearch(line_stripped)
           description_start == IF line_stripped # <<>> /\ match.found
                                THEN IndexOf(line_stripped, ":", match.end + 1) ELSE 0
       IN ParseDescriptions(Tail(lines),
            IF description_start # 0
            THEN DictPut(url_to_description, match.url,
                         DescriptionOf(line_stripped, description_start))
            ELSE url_to_description)

\* parse_existing_llms_file_content: (url_to_description, file_structure)
parse_existing_llms_file_content(lines) ==
  [url_to_description |-> ParseDescriptions(lines, EmptyDict),
   file_structure |-> parse_existing_llms_file_structure(lines)]

\* the lines handed to the parser: a header, a blank line, an entry, an
\* entry of the same URL with another description, an entry without a
\* colon, an indented entry with two colons, an entry without a line end
ParseLines ==
  {<<"#", NL>>,
   <<NL>>,
   ManifestLine(Ua),
   <<"[", "T", "]", "(">> \o Ua \o <<")", ":", SP, "t", NL>>,
   <<"[", "T", "]", "(">> \o UaQ \o <<")", NL>>,
   <<SP, "[", "T", "]", "(">> \o UaS \o <<")", SP, ":", "o", ":", SP, "o", SP, NL>>,
   <<"[", "T", "]", "(">> \o UA \o <<")", ":", "o">>}

\* the parser is about to be called on some lines
InitParse ==
  /\ dir = <<>>
  /\ logDisk = None
  /\ manifest = None
  /\ runs = 0
  /\ NoProcess
  /\ mh = NoMerge
  /\ \E lines \in UNION {[1..k -> ParseLines] : k \in 0..MaxParse} :
       ld = [pc |-> "call", lines |-> lines, url_to_description |-> EmptyDict,
             file_structure |-> <<>>]

Parse ==
  /\ ld.pc = "call"
  /\ LET r == parse_existing_llms_file_content(ld.lines)
     IN ld' = [ld EXCEPT !.pc = "returned",
                         !.url_to_description = r.url_to_description,
                         !.file_structure = r.file_structure]
  /\ UNCHANGED loadFrame

NextParse == Parse

SpecParse == InitParse /\ [][NextParse]_vars

\* where the closing parenthesis of the entry of a text ends, 0 for a text
\* that does not match the entry pattern
EntryEnd(text) == IF PatSearch(text).found THEN PatSearch(text).end ELSE 0

\* the lines of ld.lines that match the entry pattern and have a colon after
\* the URL
EntryLines ==
  {i \in 1..Len(ld.lines) :
     /\ EntryEnd(ld.lines[i]) # 0
     /\ \E p \in (EntryEnd(ld.lines[i]) + 1)..Len(ld.lines[i]) : ld.lines[i][p] = ":"}

\* the text of line i after the first colon that follows its URL, with or
\* without the white space at the ends of the line
TextAfterColon(i) ==
  LET After(text) ==
        LET p == Min({q \in (EntryEnd(text) + 1)..Len(text) : text[q] = ":"})
        IN SubSeq(text, p + 1, Len(text))
  IN {After(ld.lines[i]), After(Strip(ld.lines[i]))}

ReadSites == {"main", "load", "titles"}

\* extract_urls_from_llms_file, lines 237-272, the read included: any
\* exception of the read or the fetch yields the empty list
extract_urls_read(readable, content) ==
  IF readable THEN extract_urls_from_llms_file(content) ELSE <<>>

\* parse_existing_llms_file, lines 330-336: any exception yields ({}, [])
parse_existing_llms_file(readable, content) ==
  IF readable THEN parse_existing_llms_file_structure(ReadLines(content)) ELSE <<>>

\* generate_llms_txt, lines 83-98, for a manifest at a remote URL: the
\* except clause prints the error and raises it again
ParseRemote(readable, content) ==
  IF readable
  THEN [raised |-> FALSE, structure |-> parse_existing_llms_file_structure(ReadLines(content))]
  ELSE [raised |-> TRUE, structure |-> <<>>]

\* generate_llms_txt, lines 83-98: existing_file_structure, or the exception
ParseExisting(c, remote, readable, content) ==
  IF c.mode # "update" THEN [raised |-> FALSE, structure |-> <<>>]
  ELSE IF remote THEN ParseRemote(readable, content)
  ELSE [raised |-> FALSE, structure |-> parse_existing_llms_file(readable, content)]

\* _parse_existing_file_titles, lines 118-143, the read included: a failed
\* fetch returns, a failed open is caught; url_titles stays empty
ParseTitlesRead(c, readable, content) ==
  IF c.mode = "update" /\ readable THEN _parse_existing_file_titles(content) ELSE EmptyDict

\* load_urls, lines 36-47, with an existing manifest
load_urls_read(urls, readable, content, web) ==
  LET urls_from_file == extract_urls_read(readable, content)
  IN load_urls_directly(IF urls_from_file # <<>> THEN urls_from_file ELSE urls, web)

\* generate_llms_txt, lines 52-117, for a run against an existing manifest
\* that is a local file or a remote URL, each read of which may fail
StartRead ==
  /\ pc = "idle"
  /\ runs = 0
  /\ \E c \in {x \in Configs : x.mode # "crawl"} :
     \E remote \in BOOLEAN :
     \E reads \in [ReadSites -> BOOLEAN] :
     \E ok \in [1..Len(c.urls) -> BOOLEAN] :
       LET content == ExistingFile(c).val
           web == [u \in URLS |->
                     IF \E i \in 1..Len(c.urls) : c.urls[i] = u /\ ~ok[i]
                     THEN [ok |-> FALSE, title |-> None]
                     ELSE [ok |-> TRUE, title |-> Some(PageTitle)]]
           parsed == ParseExisting(c, remote, reads["main"], content)
       IN /\ cfg' = c
          /\ mh' = [op |-> "read", remote |-> remote, reads |-> reads]
          /\ existing_file_structure' = parsed.structure
          /\ IF parsed.raised
             THEN /\ pc' = "crashed"
                  /\ docs' = <<>>
                  /\ url_titles' = EmptyDict
                  /\ UNCHANGED <<log, blacklisted_urls>>
             ELSE /\ pc' = "summarizing"
                  /\ docs' = load_urls_read(UrlsArg(c), reads["load"], content, web)
                  /\ url_titles' = ParseTitlesRead(c, reads["titles"], content)
                  /\ log' = (IF logDisk.some THEN logDisk.val ELSE EmptyDict)
                  /\ blacklisted_urls' = _load_blacklist(ReadLines(c.blacklist))
          /\ hist' = [NoHist EXCEPT !.fresh = (dir = <<>> /\ ~logDisk.some)]
  /\ idx' = 1
  /\ summaries' = <<>>
  /\ main_summaries' = None
  /\ runs' = runs + 1
  /\ UNCHANGED <<disk, ld>>

NextRead == StartRead \/ SummarizeStep \/ LoopReturn \/ Finally

SpecRead == Init /\ [][NextRead]_vars

\* C31: when the existing manifest cannot be read, generate_llms_txt does
\* not raise, the structure is empty, no URL comes from the manifest, and
\* the run that reaches its end has executed the final merge - in every
\* mode.  (An update-descriptions-only run against an unreachable remote
\* manifest raises at line 95, before the try block of the final merge.)
ManifestReadNonFatal_C31 ==
  (mh.op = "read" /\ \A s \in ReadSites : ~mh.reads[s]) =>
    /\ pc # "crashed"
    /\ existing_file_structure = <<>>
    /\ docs = <<>>
    /\ pc = "done" => hist.merged

\* --------------------------------- two runs on the same project directory
\*
\* Two processes run the pipeline on one summaries directory.  Each has its
\* own Summarizer, hence its own in-memory log, loaded once in __init__;
\* the record files and summarized_urls.json are shared.  Nothing in the
\* code takes a lock.  mem[p] is the in-memory log of process p once its
\* Summarizer exists, written the URLs whose record file a call has written,
\* last the process that saved the log last, n the calls so far.

MaxRace == 3

Procs == {1, 2}

RaceStart == [op |-> "race", mem |-> <<None, None>>, written |-> {}, last |-> 0, n |-> 0]

InitRace ==
  /\ dir = <<>>
  /\ logDisk = None
  /\ manifest = None
  /\ runs = 0
  /\ NoProcess
  /\ ld = NoLoad
  /\ mh = RaceStart

\* Summarizer.__init__, line 52: process p loads the log
RaceLoad(p) ==
  /\ ~mh.mem[p].some
  /\ mh' = [mh EXCEPT !.mem[p] = Some(IF logDisk.some THEN logDisk.val ELSE EmptyDict)]
  /\ UNCHANGED <<disk, pc, runs, cfg, docs, idx, summaries, main_summaries, log, url_titles,
                 blacklisted_urls, existing_file_structure, hist, ld>>

\* one summarize_document call of process p: the record file is written,
\* the URL is entered into p's log and p's log is saved
RaceCall(p) ==
  /\ mh.mem[p].some
  /\ mh.n < MaxRace
  /\ \E u \in AllUrls :
     \E llm \in LlmOutcomes :
     \E pos \in 1..(Len(dir) + 1) :
       LET doc == fetch_url(u, [ok |-> TRUE, title |-> Some(PageTitle)]).val
           sm == [log |-> mh.mem[p].val, dir |-> dir, logDisk |-> logDisk,
                  url_titles |-> url_titles, blacklisted_urls |-> blacklisted_urls]
           r == summarize_document(doc, sm, llm, pos)
       IN /\ dir' = r.dir
          /\ logDisk' = r.logDisk
          /\ mh' = [mh EXCEPT !.mem[p] = Some(r.log),
                              !.written = IF r.path = "new" THEN @ \cup {u} ELSE @,
                              !.last = IF r.path = "new" THEN p ELSE @,
                              !.n = @ + 1]
  /\ UNCHANGED <<manifest, pc, runs, cfg, docs, idx, summaries, main_summaries, log,
                 url_titles, blacklisted_urls, existing_file_structure, hist, ld>>

NextRace == \E p \in Procs : RaceLoad(p) \/ RaceCall(p)

SpecRace == InitRace /\ [][NextRace]_vars

\* the written URLs that the persisted log does not hold although their
\* record file exists
LostUpdates ==
  {u \in mh.written : /\ logDisk.some
                      /\ u \notin DOMAIN logDisk.val
                      /\ DirHas(dir, _get_summary_filename(u))}

\* C32: two concurrent runs race on the log.  The persisted log is always
\* exactly the in-memory log of the process that saved last - nothing is
\* merged and nothing is locked - so every URL whose record file the other
\* process wrote, and which the saving process does not know, is missing
\* from the persisted log; the witness is the interleaving where that
\* happens.
LogRace_C32 ==
  (mh.op = "race" /\ mh.last # 0) =>
    /\ logDisk = Some(mh.mem[mh.last].val)
    /\ \A u \in mh.written : u \notin DOMAIN mh.mem[mh.last].val => u \in LostUpdates

\* both processes loaded the empty log; each wrote a record and saved; the
\* URL of the first is not in the persisted log
LogRace_C32_Witness ==
  /\ mh.op = "race"
  /\ mh.mem[1].some /\ mh.mem[2].some
  /\ Ua \in LostUpdates
  /\ UA \in DOMAIN logDisk.val

\* ------------------------------------------------------- the empty load

\* C33: when every seed fails to resolve into a Document, generate_llms_txt
\* aborts the run: it never enters the summarization loop's end and never
\* executes the final merge.  (The code has no such check: line 102 is
\* followed by the Summarizer, the loop over no documents and the merge.)
EmptyLoadAborts_C33 ==
  (pc # "idle" /\ cfg.urls # <<>> /\ docs = <<>>) =>
    /\ pc \notin {"finally", "done"}
    /\ ~hist.merged

\* ------------------------------------------------ both merge strategies

\* the skeletons of the harness that runs both strategies: none, and a
\* header with two entries
FrameSkeletons == {<<>>, <<<<"#", NL>>, ManifestLine(Ua), ManifestLine(UaS)>>}

InitFrame == InitHarness(FrameSkeletons)

NextFrame == MRecord \/ MRestart \/ MMergeA \/ MMergeB

SpecFrame == InitFrame /\ [][NextFrame]_vars

\* C34: an invocation of either merge strategy writes its output manifest
\* and nothing else: the record files, the persisted log and the in-memory
\* log are what they were before the call.
MergeFrame_C34 ==
  [][mh'.op \in {"A", "B"} =>
       /\ manifest'.some
       /\ dir' = dir
       /\ logDisk' = logDisk
       /\ log' = log]_vars

\* a Strategy B merge that replaced a line, over a directory with two
\* record files and a log
MergeFrame_C34_Witness ==
  /\ mh.op = "B"
  /\ mh.skeleton # <<>>
  /\ Len(dir) = 2
  /\ logDisk.some
  /\ log # EmptyDict
  /\ manifest.val # Join(mh.skeleton)

\* --------------------------------------------- a configured output file

\* generate_llms_txt has loaded the Documents of a crawl of MaxDocs - 1 or
\* MaxDocs seeds, none failing, into an empty project directory and has
\* built the Summarizer; output_file is the default or another name
InitTarget ==
  /\ dir = <<>>
  /\ logDisk = None
  /\ manifest = None
  /\ runs = 1
  /\ pc = "summarizing"
  /\ \E urls \in UNION {[1..k -> LoopUrls] : k \in (MaxDocs - 1)..MaxDocs} :
     \E out \in {LLMS_TXT, OUT_TXT} :
       /\ cfg = [mode |-> "crawl", urls |-> urls, blacklist |-> <<>>, output_file |-> out]
       /\ docs = load_urls(urls, None, [u \in LoopUrls |-> [ok |-> TRUE, title |-> Some(PageTitle)]],
                           [i \in 1..Len(urls) |-> [ok |-> TRUE, title |-> Some(PageTitle)]])
  /\ blacklisted_urls = {}
  /\ idx = 1
  /\ summaries = <<>>
  /\ main_summaries = None
  /\ log = EmptyDict
  /\ url_titles = EmptyDict
  /\ existing_file_structure = <<>>
  /\ hist = NoHist
  /\ ld = NoLoad
  /\ mh = NoMerge

SpecTarget == InitTarget /\ [][NextLoop]_vars

SkeletonUrls == Range(ManifestUrls(Join(mh.skeleton)))

\* the URLs that have a record: in the list of the run or in a record file
RecordedUrls ==
  {u \in AllUrls : \/ \E i \in 1..Len(summaries) : PatSearch(summaries[i]).url = u
                   \/ \E i \in 1..Len(dir) : PatSearch(dir[i].content).url = u}

\* C36: Strategy B never adds entries: the URLs of the output of
\* generate_structured_llms_txt are URLs of the skeleton, so a URL that has
\* a record but is in no line of the skeleton is not in the output.
NoNewEntries_C36 ==
  mh.op = "B" =>
    /\ Range(ManifestUrls(manifest.val)) \subseteq SkeletonUrls
    /\ \A u \in RecordedUrls \ SkeletonUrls : u \notin Range(ManifestUrls(manifest.val))

\* the run recorded https://ex.com/A and https://ex.com/a; the skeleton has
\* an entry of the second only, which the merge replaced
NoNewEntries_C36_Witness ==
  /\ mh.op = "B"
  /\ SkeletonUrls = {Ua}
  /\ {UA, Ua} \subseteq RecordedUrls
  /\ Len(summaries) = 2
  /\ manifest.val # Join(mh.skeleton)
  /\ Range(ManifestUrls(manifest.val)) = {Ua}

\* ------------------------------------------------------------ termination
\*
\* The runs in which every fetch and every model call returns or raises:
\* no interruption from outside.  generate_llms_txt is one coroutine on the
\* event loop of asyncio.run; whenever the call it awaits has returned or
\* raised, the loop resumes it, so each enabled step of the run is
\* eventually taken (weak fairness).  Starting the run is the user's and
\* carries no fairness; the specification follows one call of
\* generate_llms_txt on a new project directory to its end.

NextLive == StartRun \/ SummarizeStep \/ LoopReturn \/ Finally

\* generate_llms_txt, lines 129-151: the finally block is synchronous code
\* without an await; once entered it runs to its end or raises.  The only
\* step that takes pc from "finally" is Finally.
FinallyEnds == pc = "finally" /\ pc' \in {"done", "crashed"}

SpecLive ==
  /\ Init
  /\ [][NextLive]_vars
  /\ WF_vars(SummarizeStep)
  /\ WF_vars(LoopReturn)
  /\ WF_pc(FinallyEnds)

\* generate_llms_txt has returned: summarize_document was called once for
\* each loaded Document, in order, and the final merge ran once
TerminatedOnce ==
  /\ pc = "done"
  /\ Len(hist.calls) = Len(docs)
  /\ \A i \in 1..Len(docs) : hist.calls[i].url = docs[i].url
  /\ hist.merged
  /\ Cardinality({i \in 1..Len(hist.writes) : hist.writes[i].by = "final"}) = 1

\* C37: if every fetch and every model call eventually returns or raises,
\* a started generate_llms_txt eventually terminates, having attempted each
\* loaded Document exactly once and executed the final merge exactly once.
Termination_C37 == (pc = "summarizing") ~> TerminatedOnce

\* the run has terminated after two Documents, one of them with a model
\* call that raised
Termination_C37_Witness ==
  /\ TerminatedOnce
  /\ Len(docs) = 2
  /\ \E i \in 1..2 : hist.calls[i].raised

====
